---------------------------- MODULE Spec2Model ----------------------------
(***************************************************************************)
(* Model of src/main.py (Printer Auto Setup): the CUPS health check, the   *)
(* recovery procedure, the test print, delete and change-driver, the       *)
(* driver search, queue-name derivation and IEEE-1284 model extraction     *)
(* (Spec); the threads of the application (SpecApp), with a holder of the  *)
(* application object that clears the monitoring flag (SpecWatch); the     *)
(* debounced search of the driver dialog and the searches of its thread    *)
(* pool (SpecSearch); the install threads (SpecInstall).                   *)
(*                                                                         *)
(* Text is modelled as a sequence of one-character strings, so that        *)
(* lower(), split(), strip(), startswith() and substring tests are         *)
(* computed character by character as Python computes them.  The output   *)
(* of an external command is modelled as the sequence of its lines.        *)
(*                                                                         *)
(* One operation runs at a time: op names it and pc is its position.  An   *)
(* external command (subprocess.run) ends in one of four ways: "ok" (exit  *)
(* status 0), "fail" (non-zero exit status), "timeout"                     *)
(* (subprocess.TimeoutExpired) or "oserror" (the command cannot be         *)
(* launched; any other exception).                                         *)
(***************************************************************************)
EXTENDS Integers, Sequences, FiniteSets, TLC

VARIABLES
    op,        \* the operation in progress, "idle" when none
    pc,        \* its position
    calls,     \* the external commands it has issued so far, with outcomes
    status,    \* get_cups_status: the status dictionary (lines 64-72)
    arg,       \* the input of the operation in progress
    method,    \* test_printer: the index of the submit method the loop is at
    ret,       \* the value the operation returned
    ui,        \* the GTK main thread: "init" before do_activate, then "main"
    context,   \* app.context: whether pyudev.Context() has been created
    monitoring,\* app.monitoring
    watcher,   \* the position of the monitor_printers thread
    faults,    \* the exceptions the watch loop has caught so far
    idle,      \* the callbacks posted with GLib.idle_add, oldest first
    workers,   \* the live background threads, counted by target function
    progress,  \* whether the progress dialog of on_test_printer is shown
    last,      \* what the last step of a thread did, and which thread
    dialog,    \* whether a DriverSearchDialog is shown
    entry,     \* the text of its search entry
    search_task_id,  \* its search_task_id, 0 for None
    timers,    \* the GLib timeouts pending, each with its id and argument
    current_search,  \* its current_search
    keys,      \* the changes of the search entry so far
    view,      \* the message its status label shows
    submitted, \* the searches handed to the executor, oldest first
    dispatched,\* how many searches the executor has been handed in all
    pool,      \* the searches the executor holds, queued or running
    results,   \* the update_driver_list callbacks posted, oldest first
    list_store,\* what the driver list of the dialog shows
    late,      \* whether a result was applied to a dialog already closed
    installing,\* the install_in_background threads: queue name and position
    queues     \* the names of the queues CUPS has

\* the state of the operation in progress
core == <<op, pc, calls, status, arg, method, ret>>

\* the state of the application's threads
app == <<ui, context, monitoring, watcher, faults, idle, workers, progress,
         last>>

\* the state of the driver search dialog
search == <<dialog, entry, search_task_id, timers, current_search, keys,
            view, submitted, dispatched, pool, results, list_store, late>>

\* the installs in progress
inst == <<installing, queues>>

\* what an operation of the module leaves alone
others == <<app, search, inst>>

vars == <<core, others>>

\***************************************************************************
\* Bounds of the model
\***************************************************************************
MaxWords == 2        \* words in a generated printer state text
MaxFixed == 2        \* fixed lines preceding the generated line of lpstat -p
MaxJobLines == 2     \* lines of lpstat -o output
MaxListing == 2      \* lines of a short lpinfo -m listing, every order tried
MaxOver == 1         \* lines by which a long listing exceeds the result limit
MaxNameLen == 3      \* characters of a text given to safe_name
MaxFields == 3       \* fields of an IEEE-1284 identity given to extract_model
MaxDevices == 2      \* entries of /sys/class/usbmisc

\***************************************************************************
\* Text
\***************************************************************************
UpperChars == <<"A","B","C","D","E","F","G","H","I","J","K","L","M",
                "N","O","P","Q","R","S","T","U","V","W","X","Y","Z">>
LowerChars == <<"a","b","c","d","e","f","g","h","i","j","k","l","m",
                "n","o","p","q","r","s","t","u","v","w","x","y","z">>
DigitChars == <<"0","1","2","3","4","5","6","7","8","9">>

Range(s) == {s[i] : i \in 1..Len(s)}

\* str.lower() on one character (ASCII)
LowerChar(c) ==
    IF \E i \in 1..Len(UpperChars) : UpperChars[i] = c
    THEN LowerChars[CHOOSE i \in 1..Len(UpperChars) : UpperChars[i] = c]
    ELSE c

\* str.lower()
Lower(s) == [i \in 1..Len(s) |-> LowerChar(s[i])]

\* s.startswith(p)
StartsWith(s, p) == Len(s) >= Len(p) /\ SubSeq(s, 1, Len(p)) = p

\* p in s
Contains(s, p) ==
    \E i \in 1..(Len(s) - Len(p) + 1) : SubSeq(s, i, i + Len(p) - 1) = p

\* characters str.split() and str.strip() treat as whitespace
IsSpace(c) == c \in {" ", "\t", "\n", "\r"}

\* str.strip()
RECURSIVE LStrip(_)
LStrip(s) == IF s # <<>> /\ IsSpace(Head(s)) THEN LStrip(Tail(s)) ELSE s

RECURSIVE RStrip(_)
RStrip(s) ==
    IF s # <<>> /\ IsSpace(s[Len(s)]) THEN RStrip(SubSeq(s, 1, Len(s) - 1)) ELSE s

Strip(s) == RStrip(LStrip(s))

\* str.split(): the maximal runs of non-whitespace characters
RECURSIVE SplitWs(_, _, _)
SplitWs(s, cur, acc) ==
    IF s = <<>>
    THEN IF cur = <<>> THEN acc ELSE Append(acc, cur)
    ELSE IF IsSpace(Head(s))
         THEN SplitWs(Tail(s), <<>>, IF cur = <<>> THEN acc ELSE Append(acc, cur))
         ELSE SplitWs(Tail(s), Append(cur, Head(s)), acc)

Split(s) == SplitWs(s, <<>>, <<>>)

\* sep.join(parts)
RECURSIVE Join(_, _)
Join(parts, sep) ==
    IF parts = <<>> THEN <<>>
    ELSE IF Len(parts) = 1 THEN parts[1]
    ELSE parts[1] \o sep \o Join(Tail(parts), sep)

\* all sequences over S of length at most n
RECURSIVE SeqsUpTo(_, _)
SeqsUpTo(S, n) ==
    IF n = 0 THEN {<<>>}
    ELSE LET shorter == SeqsUpTo(S, n - 1)
         IN  shorter \cup {Append(t, x) : t \in {u \in shorter : Len(u) = n - 1}, x \in S}

\***************************************************************************
\* External commands
\***************************************************************************
Outcomes == {"ok", "fail", "timeout", "oserror"}

NoError == "<None>"

\* str(e) of the exception an outcome raises
ExcText(cmd, o) ==
    IF o = "timeout" THEN "Command timed out" ELSE "No such file or directory"

Call(cmd, o) == [cmd |-> cmd, out |-> o]

Issued(cmd) == \E i \in 1..Len(calls) : calls[i].cmd = cmd

\***************************************************************************
\* CUPSHealthManager.get_cups_status
\***************************************************************************
InitStatus ==
    [cups_active |-> FALSE, cups_hung |-> FALSE, stuck_jobs |-> 0,
     printers |-> <<>>, total_printers |-> 0, problem_printers |-> 0,
     error |-> NoError]

CmdIsActive == "systemctl is-active cups"
CmdProbe == "lpstat -r"
CmdList == "lpstat -p"
CmdStuck == "lpstat -o"

\* a mutation of has_issues: the state text is not lower-cased
has_issues_CaseSensitive(state) ==
    Contains(state, <<"p","r","o","c","e","s","s","i","n","g">>) \/ Contains(state, <<"s","t","o","p","p","e","d">>)

\* 'processing' in state.lower() or 'stopped' in state.lower()  (line 126)
has_issues(state) ==
    Contains(Lower(state), <<"p","r","o","c","e","s","s","i","n","g">>) \/ Contains(Lower(state), <<"s","t","o","p","p","e","d">>)

\* one line of lpstat -p: the printer entry it yields, if any
ParsePrinterLine(line) ==
    LET parts == Split(line)
    IN  IF StartsWith(line, <<"p","r","i","n","t","e","r">>) /\ Len(parts) >= 2
        THEN LET state == IF Len(parts) > 2
                          THEN Join(SubSeq(parts, 3, Len(parts)), <<" ">>)
                          ELSE <<>>
             IN  <<[name |-> parts[2], state |-> state,
                    has_issues |-> has_issues(state)]>>
        ELSE <<>>

RECURSIVE ParsePrinters(_)
ParsePrinters(lines) ==
    IF lines = <<>> THEN <<>>
    ELSE ParsePrinterLine(Head(lines)) \o ParsePrinters(Tail(lines))

RECURSIVE CountIssues(_)
CountIssues(printers) ==
    IF printers = <<>> THEN 0
    ELSE (IF Head(printers).has_issues THEN 1 ELSE 0) + CountIssues(Tail(printers))

\* the lines of stdout.strip().split('\n'): blank lines at either end are dropped
RECURSIVE StripLines(_)
StripLines(lines) ==
    IF lines = <<>> THEN <<>>
    ELSE IF Strip(Head(lines)) = <<>> THEN StripLines(Tail(lines))
    ELSE IF Strip(lines[Len(lines)]) = <<>>
         THEN StripLines(SubSeq(lines, 1, Len(lines) - 1))
    ELSE lines

\* Inputs: what lpstat -p and lpstat -o may print
StateWords == {<<"i","d","l","e",".">>, <<"r","e","P","r","o","c","e","s","s","i","n","g">>, <<"S","T","O","P","P","E","D">>, <<"s","t","o","p">>, <<"p","e","d">>, <<"d","i","s","a","b","l","e","d">>}

GeneratedLines ==
    {<<"p","r","i","n","t","e","r"," ","Q","1"," ">> \o Join(ws, <<" ">>) : ws \in SeqsUpTo(StateWords, MaxWords)}

FixedLines == {<<"p","r","i","n","t","e","r"," "," ","A","\t","S","t","o","p","p","e","d"," "," ","n","o","w">>, <<"p","r","i","n","t","e","r","X"," ","B">>, <<" ","p","r","i","n","t","e","r"," ","C"," ","s","t","o","p","p","e","d">>}

ListOutputs ==
    {f \o g : f \in SeqsUpTo(FixedLines, MaxFixed),
              g \in {<<>>} \cup {<<l>> : l \in GeneratedLines}}

JobOutputs == SeqsUpTo({<<"Q","1","-","7"," ","r","o","o","t"," ","1","0","2","4">>, <<>>}, MaxJobLines)

get_cups_status_start ==
    /\ op = "idle"
    /\ op' = "get_cups_status"
    /\ pc' = "is_active"
    /\ status' = InitStatus
    /\ calls' = <<>>
    /\ UNCHANGED <<others, arg, method, ret>>

\* a mutation of AfterIsActive: an inactive service does not end the check
AfterIsActive_NoReturn(o) == IF o \in {"ok", "fail"} THEN "probe" ELSE "done"

\* where the check goes after the service-active query (lines 82-86, 151-153)
AfterIsActive(o) == IF o = "ok" THEN "probe" ELSE "done"

get_cups_status_is_active ==
    /\ op = "get_cups_status" /\ pc = "is_active"
    /\ \E o \in Outcomes :
        /\ calls' = Append(calls, Call(CmdIsActive, o))
        /\ status' =
             IF o = "ok" THEN [status EXCEPT !.cups_active = TRUE]
             ELSE IF o = "fail"
                  THEN [status EXCEPT !.cups_active = FALSE,
                                      !.error = "CUPS service not active"]
             ELSE [status EXCEPT !.error = ExcText(CmdIsActive, o)]
        /\ pc' = AfterIsActive(o)
    /\ UNCHANGED <<others, op, arg, method, ret>>

\* a mutation of AfterProbe: a probe that times out does not end the check
AfterProbe_NoReturnOnTimeout(o) == IF o \in {"ok", "timeout"} THEN "list" ELSE "done"

\* where the check goes after the responsiveness probe (lines 97-104, 151-153)
AfterProbe(o) == IF o = "ok" THEN "list" ELSE "done"

\* a mutation of ProbeStatus: a probe that exits non-zero is not a hung
\* service
ProbeStatus_NonZeroNotHung(s, o) ==
    IF o = "ok" THEN s
    ELSE IF o = "fail"
         THEN [s EXCEPT !.error = "CUPS scheduler not responding"]
    ELSE IF o = "timeout"
         THEN [s EXCEPT !.cups_hung = TRUE,
                        !.error = "CUPS command timed out"]
    ELSE [s EXCEPT !.error = ExcText(CmdProbe, o)]

\* the status after the responsiveness probe (lines 97-104, 151-153)
ProbeStatus(s, o) ==
    IF o = "ok" THEN s
    ELSE IF o = "fail"
         THEN [s EXCEPT !.cups_hung = TRUE,
                        !.error = "CUPS scheduler not responding"]
    ELSE IF o = "timeout"
         THEN [s EXCEPT !.cups_hung = TRUE,
                        !.error = "CUPS command timed out"]
    ELSE [s EXCEPT !.error = ExcText(CmdProbe, o)]

get_cups_status_probe ==
    /\ op = "get_cups_status" /\ pc = "probe"
    /\ \E o \in Outcomes :
        /\ calls' = Append(calls, Call(CmdProbe, o))
        /\ status' = ProbeStatus(status, o)
        /\ pc' = AfterProbe(o)
    /\ UNCHANGED <<others, op, arg, method, ret>>

\* a mutation of OnListTimeout: the timeout is not reported in error
OnListTimeout_NoError(s) == [s EXCEPT !.cups_hung = TRUE]

\* except subprocess.TimeoutExpired of the queue listing (lines 133-136)
OnListTimeout(s) ==
    [s EXCEPT !.cups_hung = TRUE, !.error = "Printer list command timed out"]

\* a mutation of OnListed: every printer listed counts as a problem
OnListed_AllProblems(s, printers) ==
    [s EXCEPT !.printers = printers,
              !.total_printers = Len(printers),
              !.problem_printers = Len(printers)]

\* the status after a queue listing that exited zero (lines 129-131)
OnListed(s, printers) ==
    [s EXCEPT !.printers = printers,
              !.total_printers = Len(printers),
              !.problem_printers = CountIssues(printers)]

\* where the check goes after the queue listing (lines 115-137, 151-153)
AfterList(o) == IF o = "oserror" THEN "done" ELSE "stuck"

get_cups_status_list ==
    /\ op = "get_cups_status" /\ pc = "list"
    /\ \E o \in Outcomes :
        /\ calls' = Append(calls, Call(CmdList, o))
        /\ \/ /\ o = "ok"
              /\ \E out \in ListOutputs :
                   status' = OnListed(status, ParsePrinters(out))
           \/ /\ o = "fail"
              /\ status' = status
           \/ /\ o = "timeout"
              /\ status' = OnListTimeout(status)
           \/ /\ o = "oserror"
              /\ status' = [status EXCEPT !.error = ExcText(CmdList, o)]
        /\ pc' = AfterList(o)
    /\ UNCHANGED <<others, op, arg, method, ret>>

\* a mutation of OnStuckFailure: the failure is reported in error
OnStuckFailure_Reported(s, o) == [s EXCEPT !.error = ExcText(CmdStuck, o)]

\* the status after a stuck-job query that exited non-zero or raised:
\* except: pass  (lines 147-149)
OnStuckFailure(s, o) == s

get_cups_status_stuck ==
    /\ op = "get_cups_status" /\ pc = "stuck"
    /\ \E o \in Outcomes :
        /\ calls' = Append(calls, Call(CmdStuck, o))
        /\ \/ /\ o = "ok"
              /\ \E out \in JobOutputs :
                   status' = [status EXCEPT !.stuck_jobs = Len(StripLines(out))]
           \/ /\ o # "ok"
              /\ status' = OnStuckFailure(status, o)
    /\ pc' = "done"
    /\ UNCHANGED <<others, op, arg, method, ret>>

\***************************************************************************
\* The operation in progress returns to its caller
\***************************************************************************
Return ==
    /\ op # "idle" /\ pc = "done"
    /\ op' = "idle" /\ pc' = "idle"
    /\ calls' = <<>>
    /\ status' = InitStatus
    /\ arg' = <<>>
    /\ method' = 0
    /\ ret' = <<>>
    /\ UNCHANGED others


\***************************************************************************
\* Claims about get_cups_status
\***************************************************************************
InHealth == op = "get_cups_status"

CallWith(cmd, outs) ==
    \E i \in 1..Len(calls) : calls[i].cmd = cmd /\ calls[i].out \in outs

\* C1: when the service-active query exits non-zero, the health check
\* reports active = false and issues neither the responsiveness probe, nor
\* the queue listing, nor the stuck-job query: it has returned.
C1_InactiveShortCircuits ==
    (InHealth /\ CallWith(CmdIsActive, {"fail"}))
        => /\ status.cups_active = FALSE
           /\ ~Issued(CmdProbe) /\ ~Issued(CmdList) /\ ~Issued(CmdStuck)
           /\ Len(calls) = 1
           /\ pc = "done"

C1_Witness ==
    /\ InHealth /\ pc = "done"
    /\ calls = <<Call(CmdIsActive, "fail")>>
    /\ status.cups_active = FALSE
    /\ status.error = "CUPS service not active"

\* C2: when the responsiveness probe times out or exits non-zero after the
\* service was found active, the health check reports hung = true and the
\* queue listing is never attempted: it has returned.
C2_ProbeFailureIsHung ==
    (InHealth /\ CallWith(CmdProbe, {"fail", "timeout"}))
        => /\ CallWith(CmdIsActive, {"ok"})
           /\ status.cups_hung = TRUE
           /\ ~Issued(CmdList)
           /\ pc = "done"

C2_Witness ==
    /\ InHealth /\ pc = "done"
    /\ calls = <<Call(CmdIsActive, "ok"), Call(CmdProbe, "timeout")>>
    /\ status.cups_hung = TRUE

\* C3: within one health check, once hung has been set no further external
\* query is issued: no step taken with hung = true adds a command to those
\* issued.
C3_NoQueryOnceHung ==
    [][(InHealth /\ status.cups_hung = TRUE) => Len(calls') <= Len(calls)]_vars

\* C4 as stated: in a returned ServiceHealth, error is set whenever
\* active = false or any sub-check (the stuck-job query included) timed out.
C4_ErrorOnAnyTimeout ==
    (InHealth /\ pc = "done")
        => ((status.cups_active = FALSE
                \/ \E i \in 1..Len(calls) : calls[i].out = "timeout")
            => status.error # NoError)

\* C4 as amended: in a returned ServiceHealth, error is set whenever
\* active = false or the service-active query, the responsiveness probe or
\* the queue listing timed out; a timeout of the stuck-job query leaves error
\* as it was.
C4_ErrorOnTimeoutBeforeStuck ==
    (InHealth /\ pc = "done")
        => /\ (status.cups_active = FALSE
                 \/ CallWith(CmdIsActive, {"timeout"})
                 \/ CallWith(CmdProbe, {"timeout"})
                 \/ CallWith(CmdList, {"timeout"}))
               => status.error # NoError
           /\ (CallWith(CmdStuck, {"timeout"}) /\ CallWith(CmdList, {"ok", "fail"}))
               => status.error = NoError

C4_Witness ==
    /\ InHealth /\ pc = "done"
    /\ CallWith(CmdList, {"timeout"})
    /\ CallWith(CmdStuck, {"timeout"})
    /\ status.cups_active = TRUE
    /\ status.error = "Printer list command timed out"

\* two characters that are equal or the two cases of one letter
SameLetter(a, b) ==
    \/ a = b
    \/ \E n \in 1..Len(UpperChars) : {a, b} = {UpperChars[n], LowerChars[n]}

\* text contains word, whatever the case of the letters
ContainsIgnoringCase(text, word) ==
    \E k \in 0..(Len(text) - Len(word)) :
        \A j \in 1..Len(word) : SameLetter(text[k + j], word[j])

\* C5: for every queue the health check lists, has_issues is true if and
\* only if the state text contains "processing" or "stopped", whatever the
\* case of its letters (the empty state text included).
C5_HasIssuesIffKeyword ==
    InHealth =>
        \A i \in 1..Len(status.printers) :
            status.printers[i].has_issues
                <=> \/ ContainsIgnoringCase(status.printers[i].state, <<"p","r","o","c","e","s","s","i","n","g">>)
                    \/ ContainsIgnoringCase(status.printers[i].state, <<"s","t","o","p","p","e","d">>)

C5_Witness ==
    /\ InHealth /\ pc = "done"
    /\ \E i, j \in 1..Len(status.printers) :
        /\ status.printers[i].state = <<>>
        /\ ~status.printers[i].has_issues
        /\ status.printers[j].state = <<"r","e","P","r","o","c","e","s","s","i","n","g"," ","S","T","O","P","P","E","D">>
        /\ status.printers[j].has_issues

\***************************************************************************
\* PrinterManager.test_printer
\***************************************************************************
QueueNames == {"Q1", "Q2"}

CmdEnable == "sudo cupsenable <name>"
CmdAccept == "sudo cupsaccept <name>"
CmdExists == "lpstat -p <name>"

\* a mutation of Methods: the alternate submit is tried first
Methods_LprFirst ==
    <<[cmd |-> "lpr -P <name>", name |-> "Method 2 (lpr)"],
      [cmd |-> "lp -d <name>", name |-> "Method 1 (lp)"],
      [cmd |-> "lp -d <name> -o raw", name |-> "Method 3 (raw)"]>>

\* methods (lines 435-442)
Methods ==
    <<[cmd |-> "lp -d <name>", name |-> "Method 1 (lp)"],
      [cmd |-> "lpr -P <name>", name |-> "Method 2 (lpr)"],
      [cmd |-> "lp -d <name> -o raw", name |-> "Method 3 (raw)"]>>

Raises(o) == o \in {"timeout", "oserror"}

\* except Exception as e: return False, f"Error: {str(e)}"  (lines 462-464)
ErrorResult(cmd, o) == [ok |-> FALSE, msg |-> "Error: " \o ExcText(cmd, o)]

test_printer_start ==
    /\ op = "idle"
    /\ \E name \in QueueNames : arg' = name
    /\ op' = "test_printer"
    /\ pc' = "enable"
    /\ calls' = <<>>
    /\ UNCHANGED <<others, status, method, ret>>

\* cupsenable: its exit status is not looked at (lines 404-405)
test_printer_enable ==
    /\ op = "test_printer" /\ pc = "enable"
    /\ \E o \in Outcomes :
        /\ calls' = Append(calls, Call(CmdEnable, o))
        /\ IF Raises(o)
           THEN pc' = "done" /\ ret' = ErrorResult(CmdEnable, o)
           ELSE pc' = "accept" /\ ret' = ret
    /\ UNCHANGED <<others, op, status, arg, method>>

\* cupsaccept: its exit status is not looked at (lines 406-407)
test_printer_accept ==
    /\ op = "test_printer" /\ pc = "accept"
    /\ \E o \in Outcomes :
        /\ calls' = Append(calls, Call(CmdAccept, o))
        /\ IF Raises(o)
           THEN pc' = "done" /\ ret' = ErrorResult(CmdAccept, o)
           ELSE pc' = "exists" /\ ret' = ret
    /\ UNCHANGED <<others, op, status, arg, method>>

\* a mutation of AfterExists: a queue that is not found is printed to all the same
AfterExists_NoFailFast(o) == IF Raises(o) THEN "done" ELSE "submit"

\* where the test goes after the existence check (lines 417-418, 462-464)
AfterExists(o) == IF o = "ok" THEN "submit" ELSE "done"

test_printer_exists ==
    /\ op = "test_printer" /\ pc = "exists"
    /\ \E o \in Outcomes :
        /\ calls' = Append(calls, Call(CmdExists, o))
        /\ pc' = AfterExists(o)
        /\ ret' = IF Raises(o) THEN ErrorResult(CmdExists, o)
                  ELSE IF o = "fail"
                       THEN [ok |-> FALSE, msg |-> "Printer '<name>' not found"]
                  ELSE ret
        /\ method' = IF pc' = "submit" THEN 1 ELSE method
    /\ UNCHANGED <<others, op, status, arg>>

\* one iteration of for cmd, method_name in methods (lines 444-460)
test_printer_submit ==
    /\ op = "test_printer" /\ pc = "submit"
    /\ method \in 1..Len(Methods)
    /\ \E o \in Outcomes :
        /\ calls' = Append(calls, Call(Methods[method].cmd, o))
        /\ \/ /\ o = "ok"
              /\ ret' = [ok |-> TRUE,
                         msg |-> "Test page sent via " \o Methods[method].name]
              /\ pc' = "done" /\ method' = method
           \/ /\ o = "fail" /\ method < Len(Methods)
              /\ pc' = "submit" /\ method' = method + 1 /\ ret' = ret
           \/ /\ o = "fail" /\ method = Len(Methods)
              /\ ret' = [ok |-> FALSE, msg |-> "All print methods failed"]
              /\ pc' = "done" /\ method' = method
           \/ /\ Raises(o)
              /\ ret' = ErrorResult(Methods[method].cmd, o)
              /\ pc' = "done" /\ method' = method
    /\ UNCHANGED <<others, op, status, arg>>

\***************************************************************************
\* Claims about test_printer
\***************************************************************************
InTestPrint == op = "test_printer"

SubmitCmds == {"lp -d <name>", "lpr -P <name>", "lp -d <name> -o raw"}

\* the submit commands among cs, in the order they were issued
RECURSIVE SubmitCalls(_)
SubmitCalls(cs) ==
    IF cs = <<>> THEN <<>>
    ELSE (IF Head(cs).cmd \in SubmitCmds THEN <<Head(cs)>> ELSE <<>>)
            \o SubmitCalls(Tail(cs))

\* C6: when the existence check of test_printer exits non-zero, the test
\* returns failure and no submit method has been invoked.
C6_MissingQueueFailsFast ==
    (InTestPrint /\ CallWith(CmdExists, {"fail"}))
        => /\ pc = "done"
           /\ ret.ok = FALSE
           /\ SubmitCalls(calls) = <<>>

C6_Witness ==
    /\ InTestPrint /\ pc = "done"
    /\ calls = <<Call(CmdEnable, "fail"), Call(CmdAccept, "fail"),
                 Call(CmdExists, "fail")>>
    /\ ret = [ok |-> FALSE, msg |-> "Printer '<name>' not found"]

\* C7: the submit commands test_printer has issued are, in order, a prefix
\* of (lp -d, lpr -P, lp -d -o raw); every one but the last exited non-zero;
\* and when the last exited zero the test has returned success.
C7_SubmitOrder ==
    InTestPrint =>
        LET s == SubmitCalls(calls)
            order == <<"lp -d <name>", "lpr -P <name>", "lp -d <name> -o raw">>
        IN  /\ Len(s) <= 3
            /\ \A k \in 1..Len(s) : s[k].cmd = order[k]
            /\ \A k \in 1..(Len(s) - 1) : s[k].out = "fail"
            /\ (s # <<>> /\ s[Len(s)].out = "ok")
                 => (pc = "done" /\ ret.ok = TRUE)

C7_Witness ==
    /\ InTestPrint /\ pc = "done"
    /\ SubmitCalls(calls) =
         <<Call("lp -d <name>", "fail"), Call("lpr -P <name>", "ok")>>
    /\ ret = [ok |-> TRUE, msg |-> "Test page sent via Method 2 (lpr)"]

\***************************************************************************
\* DriverCache.get_drivers
\***************************************************************************
CmdLpinfo == "lpinfo -m"

\* drivers[:100]  (line 567)
MaxResults == 100

Min(a, b) == IF a <= b THEN a ELSE b

\* s[:n]
Take(s, n) == SubSeq(s, 1, Min(n, Len(s)))

\* get_drivers_from_system (lines 537-554): the lines printed on exit status
\* 0, nothing on any failure
get_drivers_from_system(o, out) == IF o = "ok" THEN out ELSE <<>>

\* a mutation of FilterDrivers: the keyword is not lower-cased
RECURSIVE FilterDrivers_KeywordCase(_, _)
FilterDrivers_KeywordCase(drivers, keyword) ==
    IF drivers = <<>> THEN <<>>
    ELSE IF Len(drivers) = 1
         THEN IF Contains(Lower(drivers[1]), keyword) THEN drivers ELSE <<>>
    ELSE LET half == Len(drivers) \div 2
         IN  FilterDrivers_KeywordCase(SubSeq(drivers, 1, half), keyword)
                \o FilterDrivers_KeywordCase(
                        SubSeq(drivers, half + 1, Len(drivers)), keyword)

\* [d for d in drivers if keyword_lower in d.lower()]  (lines 564-565); the
\* list is walked by halves, which keeps the order of its elements
RECURSIVE FilterDrivers(_, _)
FilterDrivers(drivers, keyword) ==
    IF drivers = <<>> THEN <<>>
    ELSE IF Len(drivers) = 1
         THEN IF Contains(Lower(drivers[1]), Lower(keyword)) THEN drivers ELSE <<>>
    ELSE LET half == Len(drivers) \div 2
         IN  FilterDrivers(SubSeq(drivers, 1, half), keyword)
                \o FilterDrivers(SubSeq(drivers, half + 1, Len(drivers)), keyword)

\* get_drivers (lines 556-571), given what get_drivers_from_system returned
get_drivers(drivers, keyword) ==
    Take(IF keyword # <<>> THEN FilterDrivers(drivers, keyword) ELSE drivers,
         MaxResults)

\* Inputs: keywords and the listings lpinfo -m may print
DriverLines == <<<<"h","p",".","p","p","d"," ","H","P"," ","J","e","t">>, <<"e","p","s","o","n",".","p","p","d"," ","E","p","s","o","n">>, <<"G","e","n",".","p","p","d"," ","g","e","n","e","r","i","c">>>>

Keywords == {<<>>, <<"h","p">>, <<"E","p">>, <<"N",".","P","P","D">>, <<".","p","p","d">>, <<"z","z">>}

\* a listing of n lines that goes round DriverLines, starting after line b
LongListing(n, b) ==
    [i \in 1..n |-> DriverLines[((i + b) % Len(DriverLines)) + 1]]

LongLengths ==
    {MaxResults + d : d \in (0 - 1)..MaxOver}
        \cup {((MaxResults + d) * 3) \div 2 : d \in 0..MaxOver}

Listings ==
    SeqsUpTo(Range(DriverLines), MaxListing)
        \cup {LongListing(n, b) : n \in LongLengths, b \in 1..Len(DriverLines)}

get_drivers_start ==
    /\ op = "idle"
    /\ \E k \in Keywords : arg' = [keyword |-> k]
    /\ op' = "get_drivers"
    /\ pc' = "lpinfo"
    /\ calls' = <<>>
    /\ UNCHANGED <<others, status, method, ret>>

\* the listing printed is kept in arg, next to the keyword
get_drivers_fetch ==
    /\ op = "get_drivers" /\ pc = "lpinfo"
    /\ \E o \in Outcomes :
        /\ calls' = Append(calls, Call(CmdLpinfo, o))
        /\ \E out \in (IF o = "ok" THEN Listings ELSE {<<>>}) :
            /\ arg' = [keyword |-> arg.keyword, listing |-> out]
            /\ ret' = get_drivers(get_drivers_from_system(o, out), arg.keyword)
    /\ pc' = "done"
    /\ UNCHANGED <<others, op, status, method>>

\***************************************************************************
\* Claims about get_drivers
\***************************************************************************
SearchReturned == op = "get_drivers" /\ pc = "done" /\ CallWith(CmdLpinfo, {"ok"})

\* the positions of the listing whose line contains the keyword
Matching(listing, keyword) ==
    {i \in 1..Len(listing) : ContainsIgnoringCase(listing[i], keyword)}

\* C8: a search returns the first 100, in listing order, of the lines of the
\* listing just fetched that contain the keyword whatever the case of the
\* letters (every line when the keyword is empty): the n-th matching line of
\* the listing is the n-th line of the result, for n up to 100, and the
\* result has no other line.
C8_SearchIsCappedFilter ==
    SearchReturned =>
        LET m == Matching(arg.listing, arg.keyword)
        IN  /\ Len(ret) = Min(Cardinality(m), 100)
            /\ \A i \in m :
                LET n == Cardinality({j \in m : j <= i})
                IN  n <= 100 => ret[n] = arg.listing[i]

C8_Witness ==
    /\ SearchReturned
    /\ arg.keyword = <<"N",".","P","P","D">>
    /\ Len(arg.listing) > 150
    /\ Len(ret) = 100
    /\ ret[100] = arg.listing[150]

\***************************************************************************
\* safe_name
\***************************************************************************
\* the class [a-zA-Z0-9_]
IsWordChar(c) ==
    c \in Range(LowerChars) \cup Range(UpperChars) \cup Range(DigitChars) \cup {"_"}

\* a mutation of safe_name: the replacement is a hyphen
safe_name_Hyphen(text) ==
    [i \in 1..Len(text) |-> IF IsWordChar(text[i]) THEN text[i] ELSE "-"]

\* re.sub(r"[^a-zA-Z0-9_]", "_", text)  (lines 581-582)
safe_name(text) ==
    [i \in 1..Len(text) |-> IF IsWordChar(text[i]) THEN text[i] ELSE "_"]

\* Inputs: "U+00E9" stands for the one character e-acute
NameChars == {"a", "Z", "7", "_", "-", " ", "U+00E9"}

safe_name_call ==
    /\ op = "idle"
    /\ \E text \in SeqsUpTo(NameChars, MaxNameLen) :
        /\ arg' = text
        /\ ret' = safe_name(text)
    /\ op' = "safe_name"
    /\ pc' = "done"
    /\ calls' = <<>>
    /\ UNCHANGED <<others, status, method>>

\***************************************************************************
\* extract_model
\***************************************************************************
None == [tag |-> "None"]

Some(v) == [tag |-> "Some", val |-> v]

\* not x, for x None or a text
Falsy(x) == x.tag = "None" \/ x.val = <<>>

\* s.split(c): the pieces between the occurrences of c, empty ones included
RECURSIVE SplitOnAcc(_, _, _, _)
SplitOnAcc(s, c, cur, acc) ==
    IF s = <<>> THEN Append(acc, cur)
    ELSE IF Head(s) = c
         THEN SplitOnAcc(Tail(s), c, <<>>, Append(acc, cur))
         ELSE SplitOnAcc(Tail(s), c, Append(cur, Head(s)), acc)

SplitOn(s, c) == SplitOnAcc(s, c, <<>>, <<>>)

\* s.split(c, 1)[1]: what follows the first c
AfterFirst(s, c) ==
    LET k == CHOOSE i \in 1..Len(s) : s[i] = c /\ \A j \in 1..(i - 1) : s[j] # c
    IN  SubSeq(s, k + 1, Len(s))

\* a mutation of ModelValue: the field is split at every colon
ModelValue_SplitAll(part) == Strip(SplitOn(part, ":")[2])

\* part.split(":", 1)[1].strip()  (line 589)
ModelValue(part) == Strip(AfterFirst(part, ":"))

\* for part in ...: if part.startswith("MODEL:"): return ...  (lines 587-590)
RECURSIVE FirstModel(_)
FirstModel(parts) ==
    IF parts = <<>> THEN None
    ELSE IF StartsWith(Head(parts), <<"M","O","D","E","L",":">>) THEN Some(ModelValue(Head(parts)))
    ELSE FirstModel(Tail(parts))

\* extract_model (lines 584-590)
extract_model(ieee) ==
    IF Falsy(ieee) THEN None ELSE FirstModel(SplitOn(ieee.val, ";"))

\* Inputs: identities made of up to MaxFields fields, with or without the
\* closing semicolon
IdFields ==
    {<<"M","F","G",":","A","c","m","e">>, <<"M","O","D","E","L",":","X","1","0","0">>, <<"C","L","A","S","S",":","P","R","I","N","T","E","R">>, <<"M","O","D","E","L",":"," ","A",":","B"," ">>, <<" ","M","O","D","E","L",":","Y">>,
     <<"M","O","D","E","L",":">>, <<"m","o","d","e","l",":","z">>}

Identities ==
    {Join(fs, <<";">>) \o t : fs \in SeqsUpTo(IdFields, MaxFields), t \in {<<>>, <<";">>}}

extract_model_call ==
    /\ op = "idle"
    /\ \E ieee \in {None} \cup {Some(b) : b \in Identities} :
        /\ arg' = ieee
        /\ ret' = extract_model(ieee)
    /\ op' = "extract_model"
    /\ pc' = "done"
    /\ calls' = <<>>
    /\ UNCHANGED <<others, status, method>>

\***************************************************************************
\* get_ieee1284_from_lp and MainWindow.process_usb_device
\***************************************************************************
\* PREDEFINED_DRIVERS (lines 26-29)
PREDEFINED_DRIVERS ==
    [m \in {<<"8","0","S","e","r","i","e","s","2">>, <<"8","0","S","e","r","i","e","s">>} |-> "RongtaPos/Printer80.ppd"]

GenericDriver == "drv:///sample.drv/generic.ppd"

\* get_ieee1284_from_lp (lines 592-608): the stripped content of the first
\* ieee1284_id file under /sys/class/usbmisc that can be read and is not
\* blank.  An entry of devs is the content of the file, None when the entry
\* has no such file or reading it fails.
RECURSIVE get_ieee1284_from_lp(_)
get_ieee1284_from_lp(devs) ==
    IF devs = <<>> THEN None
    ELSE IF Head(devs).tag = "Some" /\ Strip(Head(devs).val) # <<>>
         THEN Some(Strip(Head(devs).val))
    ELSE get_ieee1284_from_lp(Tail(devs))

\* Inputs: what the entries of /sys/class/usbmisc may hold
DeviceFiles ==
    {None,
     Some(<<"\n">>),
     Some(<<"M","F","G",":","A","c","m","e",";","M","O","D","E","L",":","X","1","0","0",";","C","L","A","S","S",":","P","R","I","N","T","E","R",";">> \o <<"\n">>),
     Some(<<"M","F","G",":","A","c","m","e",";","C","L","A","S","S",":","P","R","I","N","T","E","R",";">> \o <<"\n">>),
     Some(<<"M","O","D","E","L",":","8","0","S","e","r","i","e","s","2",";">>),
     Some(<<"M","O","D","E","L",":","X","-","1",";">>),
     Some(<<"M","F","G",":","A","c","m","e",";","M","O","D","E","L",":"," ",";">>)}

DialogResponses == {"YES", "NO"}

\* what search_dialog.show() returns: None, the driver of the row selected,
\* or the empty text of a placeholder row
DriverChoices == {None, Some("epson.ppd"), Some("")}

\* if not ieee: return ... if not model: return  (lines 1718-1723)
AfterRead(ieee, model) == IF Falsy(ieee) \/ Falsy(model) THEN "done" ELSE "prompt"

\* the handler up to the dialog (lines 1715-1723).  The handler is given no
\* device (line 1707 schedules self.process_usb_device without one): added
\* records which entry of /sys/class/usbmisc the device of the add event
\* is, 0 when it has none (a device that is not a printer), and is read by
\* no step of the handler.
process_usb_device_read ==
    /\ op = "idle"
    /\ \E devs \in SeqsUpTo(DeviceFiles, MaxDevices) :
        \E added \in 0..Len(devs) :
        LET ieee == get_ieee1284_from_lp(devs)
            model == IF Falsy(ieee) THEN None ELSE extract_model(ieee)
        IN  /\ arg' = devs
            /\ ret' = [ieee |-> ieee, model |-> model, prompted |-> FALSE,
                       response |-> "", searched |-> FALSE,
                       selected_driver |-> None, installs |-> <<>>,
                       added |-> added]
            /\ pc' = AfterRead(ieee, model)
    /\ op' = "process_usb_device"
    /\ calls' = <<>>
    /\ UNCHANGED <<others, status, method>>

\* a mutation of UsePredefined: the predefined drivers are never looked up
UsePredefined_Never(model) == FALSE

\* if model in PREDEFINED_DRIVERS  (line 1744)
UsePredefined(model) == model \in DOMAIN PREDEFINED_DRIVERS

\* the dialog and the predefined driver (lines 1725-1745)
process_usb_device_prompt ==
    /\ op = "process_usb_device" /\ pc = "prompt"
    /\ \E response \in DialogResponses :
        LET model == ret.model.val
            printer_name == safe_name(model)
        IN  IF response # "YES"
            THEN /\ ret' = [ret EXCEPT !.prompted = TRUE,
                                        !.response = response]
                 /\ pc' = "done"
            ELSE IF UsePredefined(model)
            THEN /\ ret' = [ret EXCEPT
                              !.prompted = TRUE,
                              !.response = response,
                              !.installs = Append(@, [name |-> printer_name,
                                                      driver |-> PREDEFINED_DRIVERS[model]])]
                 /\ pc' = "done"
            ELSE /\ ret' = [ret EXCEPT !.prompted = TRUE,
                                        !.response = response]
                 /\ pc' = "select"
    /\ UNCHANGED <<others, op, calls, status, arg, method>>

\* a mutation of DriverFor: the driver selected is not used
DriverFor_AlwaysGeneric(selected_driver) == GenericDriver

\* if selected_driver: ... else: the generic driver  (lines 1751-1755)
DriverFor(selected_driver) ==
    IF selected_driver.tag = "Some" /\ selected_driver.val # ""
    THEN selected_driver.val ELSE GenericDriver

\* the driver selection (lines 1746-1755)
process_usb_device_select ==
    /\ op = "process_usb_device" /\ pc = "select"
    /\ \E selected_driver \in DriverChoices :
        LET printer_name == safe_name(ret.model.val)
            driver == DriverFor(selected_driver)
        IN  ret' = [ret EXCEPT
                      !.searched = TRUE,
                      !.selected_driver = selected_driver,
                      !.installs = Append(@, [name |-> printer_name,
                                              driver |-> driver])]
    /\ pc' = "done"
    /\ UNCHANGED <<others, op, calls, status, arg, method>>

\***************************************************************************
\* Claims about safe_name and extract_model
\***************************************************************************
\* C9: the queue name derived from a text has the length of the text, keeps
\* every character of [A-Za-z0-9_] and has '_' in the place of every other
\* character; deriving again from the derived name changes nothing.
C9_SafeNameIdempotent ==
    op = "safe_name" =>
        LET allowed(c) ==
                \/ c = "_"
                \/ \E n \in 1..Len(DigitChars) : c = DigitChars[n]
                \/ \E n \in 1..Len(UpperChars) : c \in {UpperChars[n], LowerChars[n]}
        IN  /\ Len(ret) = Len(arg)
            /\ \A i \in 1..Len(arg) :
                 /\ allowed(ret[i])
                 /\ ret[i] = (IF allowed(arg[i]) THEN arg[i] ELSE "_")
            /\ safe_name(ret) = ret

C9_Witness ==
    /\ op = "safe_name"
    /\ arg = <<"Z", "-", "U+00E9">>
    /\ ret = <<"Z", "_", "_">>

\* the places of text where a field begins: its start and after each ';'
FieldStarts(text) ==
    {s \in 1..(Len(text) + 1) : s = 1 \/ text[s - 1] = ";"}

\* the field of text that begins at s ends before the next ';'
FieldAt(text, s) ==
    LET e == CHOOSE e \in (s - 1)..Len(text) :
                /\ \A i \in s..e : text[i] # ";"
                /\ e = Len(text) \/ text[e + 1] = ";"
    IN  SubSeq(text, s, e)

\* text without the blanks at its two ends
Trimmed(text) ==
    LET solid == {i \in 1..Len(text) : text[i] \notin {" ", "\t", "\n", "\r"}}
    IN  IF solid = {} THEN <<>>
        ELSE SubSeq(text, CHOOSE i \in solid : \A j \in solid : i <= j,
                          CHOOSE i \in solid : \A j \in solid : j <= i)

\* the model an identity names: the value, blanks at its ends apart, of the
\* first field that starts with MODEL:
NamedModel(ieee) ==
    IF ieee.tag = "None" THEN None
    ELSE LET text == ieee.val
             ms == {s \in FieldStarts(text) :
                      /\ s + 5 <= Len(text)
                      /\ \A j \in 1..6 : text[s + j - 1] = <<"M","O","D","E","L",":">>[j]}
         IN  IF ms = {} THEN None
             ELSE LET first == CHOOSE s \in ms : \A t \in ms : s <= t
                      field == FieldAt(text, first)
                  IN  Some(Trimmed(SubSeq(field, 7, Len(field))))

\* C10: extract_model returns the value of the first field that starts with
\* MODEL:, and nothing for an identity without such a field and for an
\* absent or empty identity; the hot-plug handler extracts the model from the
\* identity it read, and when nothing (or an empty value) is extracted it
\* ends without the dialog and without an install.
C10_ModelExtraction ==
    /\ op = "extract_model" => ret = NamedModel(arg)
    /\ op = "process_usb_device" =>
        /\ ret.model = NamedModel(ret.ieee)
        /\ Falsy(ret.model) =>
             (pc = "done" /\ ~ret.prompted /\ ~ret.searched /\ ret.installs = <<>>)

C10_Witness ==
    /\ op = "extract_model"
    /\ arg = Some(<<"M","F","G",":","A","c","m","e",";","M","O","D","E","L",":","X","1","0","0",";","C","L","A","S","S",":","P","R","I","N","T","E","R",";">>)
    /\ ret = Some(<<"X","1","0","0">>)

\***************************************************************************
\* Claims about the installation decided by process_usb_device
\***************************************************************************
\* C11: when the model extracted is exactly "80Series2" or "80Series", the
\* handler never reaches the driver selection, and the install it starts
\* (when the dialog is answered YES) is the one install of the derived queue
\* name with "RongtaPos/Printer80.ppd".
C11_PredefinedDriverUsed ==
    (/\ op = "process_usb_device"
     /\ ret.model.tag = "Some"
     /\ ret.model.val \in {<<"8","0","S","e","r","i","e","s","2">>, <<"8","0","S","e","r","i","e","s">>})
        => /\ pc # "select"
           /\ ~ret.searched
           /\ ret.installs \in
                {<<>>, <<[name |-> ret.model.val,
                          driver |-> "RongtaPos/Printer80.ppd"]>>}
           /\ (pc = "done" /\ ret.installs = <<>>) => ret.prompted

C11_Witness ==
    /\ op = "process_usb_device" /\ pc = "done"
    /\ ret.model = Some(<<"8","0","S","e","r","i","e","s","2">>)
    /\ ~ret.searched
    /\ ret.installs = <<[name |-> <<"8","0","S","e","r","i","e","s","2">>,
                         driver |-> "RongtaPos/Printer80.ppd"]>>

\***************************************************************************
\* CUPSHealthManager.fix_cups_issues (lines 158-239)
\***************************************************************************
CmdStopBrowsed == "sudo systemctl stop cups-browsed"
CmdCancelAll == "sudo cancel -a"
CmdCleanSpool == "clean /var/spool/cups"
CmdRestart == "sudo systemctl restart cups"

\* what a failing command may leave on stderr
Stderrs == {"", "access denied"}

\* step 3 is not a command: the directory is absent, or its files are
\* removed, or listing or removing raises  (lines 191-200)
SpoolOutcomes == {"cleaned", "absent", "error"}

\* the markers of the transcript: U+2713, U+26A0 and U+2717
CheckMark == "check mark"
WarningSign == "warning sign"
CrossMark == "cross mark"

\* one line of the transcript: its marker (or none), its fixed text and the
\* text interpolated in it
Line(text) == [mark |-> "", text |-> text, detail |-> ""]
Marked(mark, text, detail) == [mark |-> mark, text |-> text, detail |-> detail]

HeaderLine == Line("=== CUPS Fix Procedure ===")

\* where an operation continues when a command raises inside its try block
\* and nothing catches the exception
ExceptPc_Unguarded == "raised"

\* except Exception as e: ... return  (lines 236-239, 522-524, 658-660)
ExceptPc == "done"

\* steps.append(f"(cross mark) Error during CUPS fix: {str(e)}")  (line 237)
FixErrorLine(cmd, o) ==
    Marked(CrossMark, "Error during CUPS fix: ", ExcText(cmd, o))

\* the marker of step 1  (lines 173-176)
StopBrowsedMarker(o, err) ==
    IF o = "ok" THEN Marked(CheckMark, "cups-browsed stopped", "")
    ELSE Marked(WarningSign, "Could not stop cups-browsed: ", err)

\* a mutation of SpoolSteps: the heading of step 3 is not recorded
SpoolSteps_NoHeading(s) ==
    CASE s = "cleaned" -> <<Marked(CheckMark, "Spool directory cleaned", "")>>
      [] s = "error"   -> <<Marked(WarningSign, "Could not clean spool: ",
                                     "OSError")>>
      [] OTHER         -> <<>>

\* the lines step 3 records  (lines 189-200)
SpoolSteps(s) ==
    <<Line("3. Cleaning spool directory...")>> \o
    (CASE s = "cleaned" -> <<Marked(CheckMark, "Spool directory cleaned", "")>>
       [] s = "error"   -> <<Marked(WarningSign, "Could not clean spool: ",
                                      "OSError")>>
       [] OTHER         -> <<>>)

fix_cups_issues_start ==
    /\ op = "idle"
    /\ op' = "fix_cups_issues"
    /\ pc' = "stop_browsed"
    /\ ret' = [success |-> FALSE, steps |-> <<HeaderLine>>]
    /\ UNCHANGED <<others, calls, status, arg, method>>

\* step 1  (lines 165-176)
fix_cups_issues_stop_browsed ==
    /\ op = "fix_cups_issues" /\ pc = "stop_browsed"
    /\ \E o \in Outcomes, err \in Stderrs :
         /\ calls' = Append(calls, Call(CmdStopBrowsed, o))
         /\ IF Raises(o)
            THEN /\ ret' = [success |-> FALSE,
                            steps |-> ret.steps \o
                                <<Line("1. Stopping cups-browsed..."),
                                  FixErrorLine(CmdStopBrowsed, o)>>]
                 /\ pc' = ExceptPc
            ELSE /\ ret' = [ret EXCEPT !.steps = @ \o
                                <<Line("1. Stopping cups-browsed..."),
                                  StopBrowsedMarker(o, err)>>]
                 /\ pc' = "cancel"
    /\ UNCHANGED <<others, op, status, arg, method>>

\* step 2  (lines 178-186)
fix_cups_issues_cancel ==
    /\ op = "fix_cups_issues" /\ pc = "cancel"
    /\ \E o \in Outcomes :
         /\ calls' = Append(calls, Call(CmdCancelAll, o))
         /\ IF Raises(o)
            THEN /\ ret' = [success |-> FALSE,
                            steps |-> ret.steps \o
                                <<Line("2. Cancelling all print jobs..."),
                                  FixErrorLine(CmdCancelAll, o)>>]
                 /\ pc' = ExceptPc
            ELSE /\ ret' = [ret EXCEPT !.steps = @ \o
                                <<Line("2. Cancelling all print jobs..."),
                                  Marked(CheckMark, "All jobs cancelled", "")>>]
                 /\ pc' = "spool"
    /\ UNCHANGED <<others, op, status, arg, method>>

\* step 3  (lines 188-200)
fix_cups_issues_spool ==
    /\ op = "fix_cups_issues" /\ pc = "spool"
    /\ \E s \in SpoolOutcomes :
         /\ calls' = Append(calls, Call(CmdCleanSpool, s))
         /\ ret' = [ret EXCEPT !.steps = @ \o SpoolSteps(s)]
    /\ pc' = "restart"
    /\ UNCHANGED <<others, op, status, arg, method>>

\* a mutation of AfterRestart: the service is verified whatever the restart
\* returned
AfterRestart_AlwaysVerify(o) == "verify"

\* where the procedure goes after a restart command that returned
\* (lines 211-217, 232-234)
AfterRestart(o) == IF o = "ok" THEN "verify" ELSE "done"

\* step 4  (lines 202-215, 232-234)
fix_cups_issues_restart ==
    /\ op = "fix_cups_issues" /\ pc = "restart"
    /\ \E o \in Outcomes, err \in Stderrs :
         /\ calls' = Append(calls, Call(CmdRestart, o))
         /\ IF Raises(o)
            THEN /\ ret' = [success |-> FALSE,
                            steps |-> ret.steps \o
                                <<Line("4. Restarting CUPS..."),
                                  FixErrorLine(CmdRestart, o)>>]
                 /\ pc' = ExceptPc
            ELSE IF o = "ok"
            THEN /\ ret' = [ret EXCEPT !.steps = @ \o
                                <<Line("4. Restarting CUPS..."),
                                  Marked(CheckMark, "CUPS restarted", "")>>]
                 /\ pc' = AfterRestart(o)
            ELSE /\ ret' = [success |-> FALSE,
                            steps |-> ret.steps \o
                                <<Line("4. Restarting CUPS..."),
                                  Marked(CrossMark, "Failed to restart CUPS: ",
                                           err)>>]
                 /\ pc' = AfterRestart(o)
    /\ UNCHANGED <<others, op, status, arg, method>>

\* a mutation of VerifySuccess: a verify query that returned is a success
VerifySuccess_Always(o) == TRUE

\* the success value returned after the verify query returned
\* (lines 226-231)
VerifySuccess(o) == o = "ok"

\* step 5  (lines 217-231)
fix_cups_issues_verify ==
    /\ op = "fix_cups_issues" /\ pc = "verify"
    /\ \E o \in Outcomes :
         /\ calls' = Append(calls, Call(CmdIsActive, o))
         /\ IF Raises(o)
            THEN /\ ret' = [success |-> FALSE,
                            steps |-> ret.steps \o
                                <<Line("5. Verifying CUPS..."),
                                  FixErrorLine(CmdIsActive, o)>>]
                 /\ pc' = ExceptPc
            ELSE /\ ret' = [success |-> VerifySuccess(o),
                            steps |-> ret.steps \o
                                <<Line("5. Verifying CUPS..."),
                                  IF o = "ok"
                                  THEN Marked(CheckMark,
                                         "CUPS is active and running", "")
                                  ELSE Marked(CrossMark,
                                         "CUPS failed to start", "")>>]
                 /\ pc' = "done"
    /\ UNCHANGED <<others, op, status, arg, method>>

\***************************************************************************
\* Claims about fix_cups_issues
\***************************************************************************
FixDone == op = "fix_cups_issues" /\ pc = "done"

\* the commands a recovery has run, the cleanup of step 3 left out
FixCommands == SelectSeq(calls, LAMBDA c : c.cmd # CmdCleanSpool)

AllExitZero == \A i \in 1..Len(FixCommands) : FixCommands[i].out = "ok"

\* the step descriptions of the transcript: its lines without a marker, the
\* header left out
Descriptions ==
    SelectSeq(Tail(ret.steps), LAMBDA l : l.mark = "")

FiveDescriptions ==
    <<"1. Stopping cups-browsed...", "2. Cancelling all print jobs...",
      "3. Cleaning spool directory...", "4. Restarting CUPS...",
      "5. Verifying CUPS...">>

VerificationLine ==
    [mark |-> "check mark", text |-> "CUPS is active and running",
     detail |-> ""]

\* C12 (as stated): a recovery in which every command exits zero returns
\* success with a transcript of exactly 5 entries, the last one the
\* verification line.
C12_FiveEntries ==
    (FixDone /\ AllExitZero)
        => /\ ret.success
           /\ Len(ret.steps) = 5
           /\ ret.steps[Len(ret.steps)] = VerificationLine

\* C12 (amended): a recovery in which every command exits zero runs stop,
\* cancel, cleanup, restart and verify in this order and returns success; its
\* transcript is the header line, then the five numbered step descriptions in
\* order, each followed by one marker line (none for step 3 when the spool
\* directory is absent), and ends with the verification line: 11 lines, or
\* 10 when the spool directory is absent.
C12_HealthyRecovery ==
    (FixDone /\ AllExitZero)
        => /\ [i \in 1..Len(calls) |-> calls[i].cmd] =
                <<"sudo systemctl stop cups-browsed", "sudo cancel -a",
                  "clean /var/spool/cups", "sudo systemctl restart cups",
                  "systemctl is-active cups">>
           /\ ret.success
           /\ ret.steps[1] =
                [mark |-> "", text |-> "=== CUPS Fix Procedure ===",
                 detail |-> ""]
           /\ [i \in 1..Len(Descriptions) |-> Descriptions[i].text] =
                FiveDescriptions
           /\ ret.steps[Len(ret.steps)] = VerificationLine
           /\ Len(ret.steps) = IF calls[3].out = "absent" THEN 10 ELSE 11
           /\ \A i \in 2..Len(ret.steps) :
                /\ (ret.steps[i].mark = "" /\ ret.steps[i - 1].mark = "")
                       => /\ ret.steps[i - 1].text \in
                               {"=== CUPS Fix Procedure ===",
                                "3. Cleaning spool directory..."}
                          /\ ret.steps[i - 1].text =
                               "3. Cleaning spool directory..."
                                 => calls[3].out = "absent"
                /\ (ret.steps[i].mark # "") => ret.steps[i - 1].mark = ""
                /\ (ret.steps[i].mark # "" /\ ret.steps[i - 1].text #
                        "3. Cleaning spool directory...")
                       => ret.steps[i].mark = "check mark"

C12_Witness ==
    /\ FixDone /\ AllExitZero
    /\ ret.success
    /\ Len(ret.steps) = 11
    /\ calls[3].out = "cleaned"

\* C13: whatever the outcomes of steps 1, 2 and 3 (non-zero exit, timeout
\* or raised error), a recovery that has returned has attempted the restart
\* of the daemon.
C13_RestartAlwaysAttempted ==
    FixDone => \E i \in 1..Len(calls) :
                   calls[i].cmd = "sudo systemctl restart cups"

\***************************************************************************
\* PrinterManager.delete_printer (lines 498-524)
\***************************************************************************
CmdCancelFor == "sudo cancel -a <name>"
CmdRemove == "sudo lpadmin -x <name>"

\* what a command may leave on stdout
Stdouts == {"", "lpadmin: failed"}

\* error_msg = result.stderr if result.stderr else result.stdout
\* (lines 518, 643)
ErrorMsg(stderr, stdout) == IF stderr # "" THEN stderr ELSE stdout

delete_printer_start ==
    /\ op = "idle"
    /\ \E name \in QueueNames : arg' = [name |-> name]
    /\ op' = "delete_printer"
    /\ pc' = "cancel"
    /\ UNCHANGED <<others, calls, status, method, ret>>

\* the jobs of the queue are cancelled, the exit status is not looked at
\* (lines 502-504)
delete_printer_cancel ==
    /\ op = "delete_printer" /\ pc = "cancel"
    /\ \E o \in Outcomes :
        /\ calls' = Append(calls, Call(CmdCancelFor, o))
        /\ IF Raises(o)
           THEN pc' = ExceptPc /\ ret' = ErrorResult(CmdCancelFor, o)
           ELSE pc' = "remove" /\ ret' = ret
    /\ UNCHANGED <<others, op, status, arg, method>>

\* a mutation of DeleteResult: the exit status of lpadmin -x is not looked at
DeleteResult_AlwaysOk(o, stderr, stdout) ==
    [ok |-> TRUE, msg |-> "Printer '<name>' deleted successfully"]

\* what delete_printer returns once lpadmin -x has exited  (lines 514-520)
DeleteResult(o, stderr, stdout) ==
    IF o = "ok"
    THEN [ok |-> TRUE, msg |-> "Printer '<name>' deleted successfully"]
    ELSE [ok |-> FALSE,
          msg |-> "Failed to delete printer: " \o ErrorMsg(stderr, stdout)]

\* lpadmin -x  (lines 506-524); what it printed is kept in arg, next to
\* the name
delete_printer_remove ==
    /\ op = "delete_printer" /\ pc = "remove"
    /\ \E o \in Outcomes, stderr \in Stderrs, stdout \in Stdouts :
        /\ calls' = Append(calls, Call(CmdRemove, o))
        /\ IF Raises(o)
           THEN /\ pc' = ExceptPc
                /\ ret' = ErrorResult(CmdRemove, o)
                /\ arg' = [name |-> arg.name, stderr |-> "", stdout |-> ""]
           ELSE /\ pc' = "done"
                /\ ret' = DeleteResult(o, stderr, stdout)
                /\ arg' = [name |-> arg.name, stderr |-> stderr,
                           stdout |-> stdout]
    /\ UNCHANGED <<others, op, status, method>>

\***************************************************************************
\* change_driver (lines 610-660)
\***************************************************************************
CmdCreate == "sudo lpadmin -p <name> -v usb:// -E -m <driver>"
CmdUpdate == "sudo lpadmin -p <name> -m <driver> -E"

DriverUris == {"RongtaPos/Printer80.ppd", GenericDriver}

\* a mutation of ConfigureCmd: the two lpadmin forms are exchanged
ConfigureCmd_Exchanged(exists) == IF exists # "ok" THEN CmdUpdate ELSE CmdCreate

\* the lpadmin form chosen after the existence check  (lines 627-640)
ConfigureCmd(exists) == IF exists # "ok" THEN CmdCreate ELSE CmdUpdate

change_driver_start ==
    /\ op = "idle"
    /\ \E name \in QueueNames, driver \in DriverUris :
         arg' = [name |-> name, driver |-> driver,
                 stderr |-> "", stdout |-> ""]
    /\ op' = "change_driver"
    /\ pc' = "cancel"
    /\ UNCHANGED <<others, calls, status, method, ret>>

\* lines 615-618
change_driver_cancel ==
    /\ op = "change_driver" /\ pc = "cancel"
    /\ \E o \in Outcomes :
        /\ calls' = Append(calls, Call(CmdCancelFor, o))
        /\ IF Raises(o)
           THEN pc' = ExceptPc /\ ret' = ErrorResult(CmdCancelFor, o)
           ELSE pc' = "exists" /\ ret' = ret
    /\ UNCHANGED <<others, op, status, arg, method>>

\* lines 620-626
change_driver_exists ==
    /\ op = "change_driver" /\ pc = "exists"
    /\ \E o \in Outcomes :
        /\ calls' = Append(calls, Call(CmdExists, o))
        /\ IF Raises(o)
           THEN pc' = ExceptPc /\ ret' = ErrorResult(CmdExists, o)
           ELSE pc' = "configure" /\ ret' = ret
    /\ UNCHANGED <<others, op, status, arg, method>>

\* a mutation of ConfigureFailure: the failure carries what lpadmin printed
\* on stdout
ConfigureFailure_Stdout(stderr, stdout) ==
    [ok |-> FALSE, msg |-> "Failed to configure printer: " \o stdout]

\* the result when lpadmin exited non-zero  (lines 642-645)
ConfigureFailure(stderr, stdout) ==
    [ok |-> FALSE,
     msg |-> "Failed to configure printer: " \o ErrorMsg(stderr, stdout)]

\* lines 627-645; arg keeps what a failing lpadmin printed
change_driver_configure ==
    /\ op = "change_driver" /\ pc = "configure"
    /\ \E o \in Outcomes, stderr \in Stderrs, stdout \in Stdouts :
        LET cmd == ConfigureCmd(calls[Len(calls)].out)
        IN  /\ calls' = Append(calls, Call(cmd, o))
            /\ IF Raises(o)
               THEN pc' = ExceptPc /\ ret' = ErrorResult(cmd, o) /\ arg' = arg
               ELSE IF o # "ok"
               THEN /\ pc' = "done"
                    /\ ret' = ConfigureFailure(stderr, stdout)
                    /\ arg' = [arg EXCEPT !.stderr = stderr,
                                          !.stdout = stdout]
               ELSE pc' = "enable" /\ ret' = ret /\ arg' = arg
    /\ UNCHANGED <<others, op, status, method>>

\* lines 647-649
change_driver_enable ==
    /\ op = "change_driver" /\ pc = "enable"
    /\ \E o \in Outcomes :
        /\ calls' = Append(calls, Call(CmdEnable, o))
        /\ IF Raises(o)
           THEN pc' = ExceptPc /\ ret' = ErrorResult(CmdEnable, o)
           ELSE pc' = "accept" /\ ret' = ret
    /\ UNCHANGED <<others, op, status, arg, method>>

\* lines 650-656
change_driver_accept ==
    /\ op = "change_driver" /\ pc = "accept"
    /\ \E o \in Outcomes :
        /\ calls' = Append(calls, Call(CmdAccept, o))
        /\ IF Raises(o)
           THEN pc' = ExceptPc /\ ret' = ErrorResult(CmdAccept, o)
           ELSE /\ pc' = "done"
                /\ ret' = [ok |-> TRUE,
                           msg |-> "Driver installed successfully for '<name>'"]
    /\ UNCHANGED <<others, op, status, arg, method>>

\***************************************************************************
\* CUPSHealthManager.safe_printer_command (lines 273-299)
\***************************************************************************
CUPS_OPERATION_TIMEOUT == 10

\* the timeouts a caller may pass: the default and one of its own
Timeouts == {CUPS_OPERATION_TIMEOUT, 5}

Commands == {CmdProbe, CmdRemove}

\* a mutation of OnTimeout: the message does not name the timeout
OnTimeout_NoSeconds(timeout) ==
    [success |-> FALSE, output |-> "", error |-> "Command timed out"]

\* except subprocess.TimeoutExpired  (lines 288-293)
OnTimeout(timeout) ==
    [success |-> FALSE, output |-> "",
     error |-> "Command timed out after " \o ToString(timeout) \o "s"]

safe_printer_command_start ==
    /\ op = "idle"
    /\ \E command \in Commands, timeout \in Timeouts :
         arg' = [command |-> command, timeout |-> timeout]
    /\ op' = "safe_printer_command"
    /\ pc' = "run"
    /\ UNCHANGED <<others, calls, status, method, ret>>

\* what the command printed is kept in arg, next to the command
safe_printer_command_run ==
    /\ op = "safe_printer_command" /\ pc = "run"
    /\ \E o \in Outcomes, stdout \in Stdouts, stderr \in Stderrs :
        /\ calls' = Append(calls, Call(arg.command, o))
        /\ arg' = [command |-> arg.command, timeout |-> arg.timeout,
                   stdout |-> IF Raises(o) THEN "" ELSE stdout,
                   stderr |-> IF Raises(o) THEN "" ELSE stderr]
        /\ ret' = CASE o = "timeout" -> OnTimeout(arg.timeout)
                    [] o = "oserror" ->
                         [success |-> FALSE, output |-> "",
                          error |-> ExcText(arg.command, o)]
                    [] OTHER ->
                         [success |-> (o = "ok"), output |-> stdout,
                          error |-> stderr]
    /\ pc' = "done"
    /\ UNCHANGED <<others, op, status, method>>

\***************************************************************************
\* Claims about the failure paths of the operations
\***************************************************************************
LastRaised ==
    /\ calls # <<>>
    /\ calls[Len(calls)].out \in {"timeout", "oserror"}

\* C15: whatever the outcomes of the commands (zero exit, non-zero exit,
\* timeout, launch error), no exception leaves get_cups_status,
\* fix_cups_issues, test_printer, delete_printer, get_drivers or
\* change_driver: each of them returns a value of its result shape, and a
\* failure one when its last command raised.
C15_NoExceptionEscapes ==
    /\ pc # "raised"
    /\ (op = "get_cups_status" /\ pc = "done")
          => /\ DOMAIN status =
                  {"cups_active", "cups_hung", "stuck_jobs", "printers",
                   "total_printers", "problem_printers", "error"}
             /\ status.cups_active \in BOOLEAN
             /\ status.cups_hung \in BOOLEAN
    /\ (op \in {"test_printer", "delete_printer", "change_driver"}
            /\ pc = "done")
          => /\ DOMAIN ret = {"ok", "msg"}
             /\ ret.ok \in BOOLEAN
             /\ LastRaised => ~ret.ok
    /\ (op = "fix_cups_issues" /\ pc = "done")
          => /\ DOMAIN ret = {"success", "steps"}
             /\ ret.success \in BOOLEAN
             /\ LastRaised => ~ret.success
    /\ (op = "get_drivers" /\ pc = "done")
          => /\ DOMAIN ret = 1..Len(ret)
             /\ LastRaised => ret = <<>>
    /\ (op \in {"test_printer", "delete_printer", "change_driver",
                "fix_cups_issues", "get_drivers"} /\ LastRaised)
          => pc = "done"

C15_Witness ==
    /\ op = "change_driver" /\ pc = "done"
    /\ Len(calls) = 3
    /\ calls[3].out = "timeout"
    /\ ret = [ok |-> FALSE, msg |-> "Error: Command timed out"]

\***************************************************************************
\* Claims about safe_printer_command
\***************************************************************************
\* C16: safe_printer_command always returns: success = TRUE with the stdout
\* and stderr captured when the command exits zero; success = FALSE (with
\* them as well) when it exits non-zero; success = FALSE, an empty output
\* and the error "Command timed out after Ns", N the timeout passed, when it
\* times out; success = FALSE, an empty output and the text of the error
\* when it cannot be launched.
C16_SafeCommandNeverRaises ==
    op = "safe_printer_command" =>
        /\ pc \in {"run", "done"}
        /\ pc = "done" =>
            LET o == calls[1].out
            IN  /\ Len(calls) = 1
                /\ DOMAIN ret = {"success", "output", "error"}
                /\ ret.success = (o = "ok")
                /\ o \in {"ok", "fail"}
                     => ret.output = arg.stdout /\ ret.error = arg.stderr
                /\ o = "timeout"
                     => /\ ret.output = ""
                        /\ arg.timeout = 10
                             => ret.error = "Command timed out after 10s"
                        /\ arg.timeout = 5
                             => ret.error = "Command timed out after 5s"
                /\ o = "oserror"
                     => /\ ret.output = ""
                        /\ ret.error = "No such file or directory"

C16_Witness ==
    /\ op = "safe_printer_command" /\ pc = "done"
    /\ calls[1].out = "timeout"
    /\ arg.timeout = 10
    /\ ret = [success |-> FALSE, output |-> "",
              error |-> "Command timed out after 10s"]

\***************************************************************************
\* The threads of the application: the GTK main thread (do_activate, the
\* signal handlers, the timer and idle callbacks), the worker threads the
\* handlers start, and the monitor_printers thread (lines 882-918,
\* 975-977, 1280-1287, 1321-1330, 1350-1363, 1403-1453, 1503-1521,
\* 1677-1723).  A step of a thread records in last which thread it was, the
\* blocking calls it made and whether it changed a widget.
\***************************************************************************
MaxThreads == 2      \* worker threads alive at a time
MaxQueue == 2        \* callbacks waiting when a thread posts more
MaxFaults == 1       \* exceptions raised in the watch loop

WorkerKinds ==
    {"update_in_background", "load_in_background", "test_in_background",
     "run_dialog", "fix_in_background", "install_in_background"}

NoWorkers == [k \in WorkerKinds |-> 0]

Live ==
    workers["update_in_background"] + workers["load_in_background"]
      + workers["test_in_background"] + workers["run_dialog"]
      + workers["fix_in_background"] + workers["install_in_background"]

\* threading.Thread(target=k, daemon=True).start() for every k of ks
RECURSIVE Started(_, _)
Started(w, ks) ==
    IF ks = <<>> THEN w
    ELSE Started([w EXCEPT ![Head(ks)] = @ + 1], Tail(ks))

\* the thread function k returns
Finished(k) == [workers EXCEPT ![k] = @ - 1]

Did(thread, blocking, display) ==
    [thread |-> thread, blocking |-> blocking, display |-> display,
     event |-> ""]

\* a step of the watch loop that received the udev event ev
Received(ev) ==
    [thread |-> "monitor_printers", blocking |-> {"monitor.poll"},
     display |-> FALSE, event |-> ev]

Nothing == Did("none", {}, FALSE)

\* GLib.idle_add(cb) for every cb of cbs
Posted(cbs) == idle \o cbs

\* the model lets a thread post n callbacks when none is waiting, or when
\* no more than MaxQueue are waiting afterwards
Room(n) == idle = <<>> \/ Len(idle) + n <= MaxQueue

\* do_activate, with MainWindow.__init__ and start_monitoring
\* (lines 889-918, 975-977, 1110)
do_activate ==
    /\ ui = "init"
    /\ ui' = "main"
    /\ \E first \in BOOLEAN, second \in BOOLEAN :
         context' = (first \/ second)
    /\ monitoring' = TRUE
    /\ watcher' = IF context' THEN "check" ELSE watcher
    /\ workers' = Started(workers,
                          <<"load_in_background", "update_in_background">>)
    /\ last' = Did("ui", {"disable_ubuntu_autoconfig"}, TRUE)
    /\ UNCHANGED <<core, search, inst, faults, idle, progress>>

\* the 10 s timer of line 977 fires: update_cups_status (lines 1280-1287)
status_timer ==
    /\ ui = "main"
    /\ Live < MaxThreads
    /\ workers' = Started(workers, <<"update_in_background">>)
    /\ last' = Did("ui", {}, FALSE)
    /\ UNCHANGED <<core, search, inst, ui, context, monitoring, watcher, faults, idle,
                   progress>>

\* update_in_background (lines 1282-1284)
update_in_background ==
    /\ workers["update_in_background"] > 0
    /\ Room(1)
    /\ workers' = Finished("update_in_background")
    /\ idle' = Posted(<<"update_cups_display">>)
    /\ last' = Did("update_in_background", {"get_cups_status"}, FALSE)
    /\ UNCHANGED <<core, search, inst, ui, context, monitoring, watcher, faults, progress>>

\* load_in_background (lines 1326-1328)
load_in_background ==
    /\ workers["load_in_background"] > 0
    /\ Room(1)
    /\ workers' = Finished("load_in_background")
    /\ idle' = Posted(<<"update_printer_list">>)
    /\ last' = Did("load_in_background", {"get_available_printers"}, FALSE)
    /\ UNCHANGED <<core, search, inst, ui, context, monitoring, watcher, faults, progress>>

\* on_printer_selection_changed with a row selected (lines 1350-1377)
on_printer_selection_changed ==
    /\ ui = "main"
    /\ last' = Did("ui", {"get_printer_details"}, TRUE)
    /\ UNCHANGED <<core, search, inst, ui, context, monitoring, watcher, faults, idle,
                   workers, progress>>

\* on_test_printer with a row selected (lines 1403-1453)
on_test_printer ==
    /\ ui = "main"
    /\ ~progress
    /\ Live + 2 <= MaxThreads
    /\ progress' = TRUE
    /\ workers' = Started(workers, <<"test_in_background", "run_dialog">>)
    /\ last' = Did("ui", {}, TRUE)
    /\ UNCHANGED <<core, search, inst, ui, context, monitoring, watcher, faults, idle>>

\* pulse_progress, every 200 ms while the bar is visible (lines 1440-1446)
pulse_progress ==
    /\ ui = "main"
    /\ progress
    /\ last' = Did("ui", {}, TRUE)
    /\ UNCHANGED <<core, search, inst, ui, context, monitoring, watcher, faults, idle,
                   workers, progress>>

\* test_in_background (lines 1429-1435)
test_in_background ==
    /\ workers["test_in_background"] > 0
    /\ Room(2)
    /\ workers' = Finished("test_in_background")
    /\ idle' = Posted(<<"progress_dialog.destroy", "log">>)
    /\ last' = Did("test_in_background", {"test_printer"}, FALSE)
    /\ UNCHANGED <<core, search, inst, ui, context, monitoring, watcher, faults, progress>>

\* run_dialog: progress_dialog.run() and progress_dialog.destroy() are
\* called by the thread itself (lines 1449-1453)
run_dialog ==
    /\ workers["run_dialog"] > 0
    /\ workers' = Finished("run_dialog")
    /\ progress' = FALSE
    /\ last' = Did("run_dialog", {"progress_dialog.run"}, TRUE)
    /\ UNCHANGED <<core, search, inst, ui, context, monitoring, watcher, faults, idle>>

\* on_fix_cups (lines 1503-1521)
on_fix_cups ==
    /\ ui = "main"
    /\ Live < MaxThreads
    /\ workers' = Started(workers, <<"fix_in_background">>)
    /\ last' = Did("ui", {}, TRUE)
    /\ UNCHANGED <<core, search, inst, ui, context, monitoring, watcher, faults, idle,
                   progress>>

\* fix_in_background (lines 1508-1519)
fix_in_background ==
    /\ workers["fix_in_background"] > 0
    /\ Room(4)
    /\ workers' = Finished("fix_in_background")
    /\ idle' = Posted(<<"log", "log", "update_cups_status", "load_printers">>)
    /\ last' = Did("fix_in_background", {"fix_cups_issues"}, FALSE)
    /\ UNCHANGED <<core, search, inst, ui, context, monitoring, watcher, faults, progress>>

\* install_in_background, started by install_driver with is_existing False
\* (lines 1682-1689)
install_in_background ==
    /\ workers["install_in_background"] > 0
    /\ \E success \in BOOLEAN :
         LET cbs == IF success THEN <<"log", "load_printers">> ELSE <<"log">>
         IN  /\ Room(Len(cbs))
             /\ idle' = Posted(cbs)
    /\ workers' = Finished("install_in_background")
    /\ last' = Did("install_in_background", {"change_driver"}, FALSE)
    /\ UNCHANGED <<core, search, inst, ui, context, monitoring, watcher, faults, progress>>

\* the main loop runs the oldest idle callback; these callbacks return a
\* false value and are removed
Dispatch(cb) == ui = "main" /\ idle # <<>> /\ Head(idle) = cb

\* update_cups_display (lines 1289-1319)
update_cups_display ==
    /\ Dispatch("update_cups_display")
    /\ idle' = Tail(idle)
    /\ last' = Did("ui", {}, TRUE)
    /\ UNCHANGED <<core, search, inst, ui, context, monitoring, watcher, faults, workers,
                   progress>>

\* update_printer_list (lines 1332-1348)
update_printer_list ==
    /\ Dispatch("update_printer_list")
    /\ idle' = Tail(idle)
    /\ last' = Did("ui", {}, TRUE)
    /\ UNCHANGED <<core, search, inst, ui, context, monitoring, watcher, faults, workers,
                   progress>>

\* lambda: self.log_message(...) and lambda: self.log_results(...)
log_callback ==
    /\ Dispatch("log")
    /\ idle' = Tail(idle)
    /\ last' = Did("ui", {}, TRUE)
    /\ UNCHANGED <<core, search, inst, ui, context, monitoring, watcher, faults, workers,
                   progress>>

\* progress_dialog.destroy posted by test_in_background (line 1431)
progress_dialog_destroy ==
    /\ Dispatch("progress_dialog.destroy")
    /\ idle' = Tail(idle)
    /\ progress' = FALSE
    /\ last' = Did("ui", {}, TRUE)
    /\ UNCHANGED <<core, search, inst, ui, context, monitoring, watcher, faults, workers>>

\* load_printers as an idle callback (lines 1321-1330)
load_printers ==
    /\ Dispatch("load_printers")
    /\ Live < MaxThreads
    /\ idle' = Tail(idle)
    /\ workers' = Started(workers, <<"load_in_background">>)
    /\ last' = Did("ui", {}, TRUE)
    /\ UNCHANGED <<core, search, inst, ui, context, monitoring, watcher, faults, progress>>

\* update_cups_status as an idle callback (lines 1280-1287, 1518): it
\* returns True, so the main loop keeps it and runs it again
update_cups_status ==
    /\ Dispatch("update_cups_status")
    /\ Live < MaxThreads
    /\ idle' = Append(Tail(idle), "update_cups_status")
    /\ workers' = Started(workers, <<"update_in_background">>)
    /\ last' = Did("ui", {}, FALSE)
    /\ UNCHANGED <<core, search, inst, ui, context, monitoring, watcher, faults, progress>>

\* process_usb_device as an idle callback (lines 1713-1755): the sleep and
\* the reading of the ieee1284_id files run in the main loop; install tells
\* whether the handler goes as far as install_driver (lines 1677-1691)
process_usb_device ==
    /\ Dispatch("process_usb_device")
    /\ idle' = Tail(idle)
    /\ \E install \in BOOLEAN :
         IF install
         THEN /\ Live < MaxThreads
              /\ workers' = Started(workers, <<"install_in_background">>)
              /\ last' = Did("ui", {"time.sleep(1)", "get_ieee1284_from_lp"},
                             TRUE)
         ELSE /\ workers' = workers
              /\ \E asked \in BOOLEAN :
                   last' = Did("ui", {"time.sleep(1)", "get_ieee1284_from_lp"},
                               asked)
    /\ UNCHANGED <<core, search, inst, ui, context, monitoring, watcher, faults, progress>>

\***************************************************************************
\* MainWindow.monitor_printers (lines 1693-1711)
\***************************************************************************
\* a mutation of AfterMonitorError: the thread ends on an exception
AfterMonitorError_Exit == "exited"

\* except Exception as e: ... time.sleep(5)  (lines 1709-1711)
AfterMonitorError == "backoff"

\* what monitor.poll() gives the loop
UdevEvents ==
    {"add usb_device", "add usb_interface", "remove usb_device", "None",
     "error"}

\* while self.get_application().monitoring  (line 1695)
monitor_printers_check ==
    /\ watcher = "check"
    /\ watcher' = IF monitoring THEN "setup" ELSE "exited"
    /\ last' = Did("monitor_printers", {}, FALSE)
    /\ UNCHANGED <<core, search, inst, ui, context, monitoring, faults, idle, workers,
                   progress>>

\* Monitor.from_netlink and filter_by  (lines 1697-1699)
monitor_printers_setup ==
    /\ watcher = "setup"
    /\ \/ /\ watcher' = "poll"
          /\ faults' = faults
       \/ /\ faults < MaxFaults
          /\ faults' = faults + 1
          /\ watcher' = AfterMonitorError
    /\ last' = Did("monitor_printers", {}, FALSE)
    /\ UNCHANGED <<core, search, inst, ui, context, monitoring, idle, workers, progress>>

\* a mutation of HandlersFor: every add event schedules a handler
HandlersFor_AnyAdd(ev) ==
    IF ev \in {"add usb_device", "add usb_interface"}
    THEN <<"process_usb_device">> ELSE <<>>

\* if device.action == "add" and device.get("DEVTYPE") == "usb_device":
\*     GLib.idle_add(self.process_usb_device)   (lines 1705-1707)
HandlersFor(ev) ==
    IF ev = "add usb_device" THEN <<"process_usb_device">> ELSE <<>>

\* one iteration of for device in iter(monitor.poll, None)
\* (lines 1701-1707)
monitor_printers_poll ==
    /\ watcher = "poll"
    /\ \E ev \in UdevEvents :
         /\ last' = Received(ev)
         /\ CASE ev = "error" ->
                   /\ faults < MaxFaults
                   /\ faults' = faults + 1
                   /\ watcher' = AfterMonitorError
                   /\ idle' = idle
              [] ev = "None" ->
                   /\ watcher' = "check"
                   /\ UNCHANGED <<faults, idle>>
              [] OTHER ->
                   IF ~monitoring
                   THEN /\ watcher' = "check"
                        /\ UNCHANGED <<faults, idle>>
                   ELSE /\ watcher' = "poll"
                        /\ faults' = faults
                        /\ Room(Len(HandlersFor(ev)))
                        /\ idle' = Posted(HandlersFor(ev))
    /\ UNCHANGED <<core, search, inst, ui, context, monitoring, workers, progress>>

\* app.monitoring is an attribute of the application object, read by the
\* watch loop at lines 1695 and 1702.  src/main.py only ever assigns True
\* to it (lines 885, 913); this step is the holder of the application
\* object assigning False, and belongs to SpecWatch only.
monitoring_cleared ==
    /\ ui = "main"
    /\ monitoring
    /\ monitoring' = FALSE
    /\ last' = Did("none", {}, FALSE)
    /\ UNCHANGED <<core, search, inst, ui, context, watcher, faults, idle, workers,
                   progress>>

\* time.sleep(5)  (line 1711)
monitor_printers_backoff ==
    /\ watcher = "backoff"
    /\ watcher' = "check"
    /\ last' = Did("monitor_printers", {"time.sleep(5)"}, FALSE)
    /\ UNCHANGED <<core, search, inst, ui, context, monitoring, faults, idle, workers,
                   progress>>

\***************************************************************************
\* Claims about the threads of the application
\***************************************************************************
\* C14: while app.monitoring is set the watcher thread never ends; every
\* exception caught in the watch loop (setting up the monitor, or polling
\* it) takes the thread to the backoff, the backoff (time.sleep(5)) is
\* followed by the test of the flag, and the test, flag set, by setting up
\* the monitor again.
C14_WatcherBacksOffAndRetries ==
    /\ [](monitoring => watcher # "exited")
    /\ [][/\ faults' > faults
              => watcher \in {"setup", "poll"} /\ watcher' = "backoff"
          /\ (watcher = "backoff" /\ watcher' # watcher)
              => /\ watcher' = "check"
                 /\ last' = [thread |-> "monitor_printers",
                             blocking |-> {"time.sleep(5)"},
                             display |-> FALSE, event |-> ""]
          /\ (watcher = "check" /\ monitoring /\ watcher' # watcher)
              => watcher' = "setup"]_vars

C14_Witness ==
    /\ monitoring
    /\ faults > 0
    /\ watcher = "setup"

\* C17: no step of the GTK main thread runs an external command, sleeps or
\* waits on a device: the blocking calls are all made by worker threads.
C17_UiThreadNeverBlocks ==
    last.thread = "ui" => last.blocking = {}

\* C18: a step that changes a widget is a step of the GTK main thread.
C18_WidgetsChangedByUiThreadOnly ==
    last.display => last.thread = "ui"

\* C19: at most one health check (update_in_background thread) is
\* outstanding at any time.
C19_OneHealthCheckOutstanding ==
    workers["update_in_background"] <= 1

\***************************************************************************
\* DriverSearchDialog: the debounced search (lines 665-837)
\***************************************************************************
MaxKeys == 3         \* changes of the search entry
MaxSearches == 2     \* searches handed to the executor

SEARCH_DEBOUNCE_MS == 300

\* the texts the search entry may hold
EntryTexts == {<<>>, <<"e">>, <<"e","p">>, <<"e","p"," ">>}

\* a mutation of source_remove: the timeout stays pending
source_remove_Ignored(ts, id) == ts

\* GLib.source_remove(id)
source_remove(ts, id) == {t \in ts : t.id # id}

\* GLib.timeout_add(ms, callback, argument): the new source has a fresh id
timeout_add(ts, id, ms, text) ==
    ts \cup {[id |-> id, ms |-> ms, text |-> text]}

\* perform_search (lines 807-828): what the status label shows afterwards
\* and what is handed to the executor; by tells the caller
SearchView(text) ==
    IF Len(text) < 2 /\ text # <<>>
    THEN "Please enter at least 2 characters to search"
    ELSE IF text # <<>> THEN "Searching for '<text>'..."
    ELSE "Showing popular drivers..."

Searches(text, by) ==
    IF Len(text) < 2 /\ text # <<>> THEN <<>>
    ELSE <<[keyword |-> text, by |-> by, keys |-> keys]>>

CanSubmit(text) ==
    (Len(text) < 2 /\ text # <<>>) \/ dispatched < MaxSearches

\* ThreadPoolExecutor(max_workers=2)  (line 42)
max_workers == 2

\* the rows perform_search leaves in the list: one row without a driver
\* (lines 810-821)
Placeholder == [kind |-> "placeholder", keyword |-> <<>>, n |-> 0]

\* executor.submit(self.search_drivers_background, search_text)  (line 828):
\* the searches of text the executor is handed, the n-th in all
Submitted(text, n) ==
    IF Len(text) < 2 /\ text # <<>> THEN <<>>
    ELSE <<[keyword |-> text, n |-> n, state |-> "queued", closed |-> FALSE]>>

\* the dialog of these searches is destroyed (line 777)
Closed(q) == [i \in 1..Len(q) |-> [q[i] EXCEPT !.closed = TRUE]]

\* DriverSearchDialog(...).show() up to dialog.run()  (lines 665-773)
show ==
    /\ ~dialog
    /\ dialog' = TRUE
    /\ entry' = <<>>
    /\ search_task_id' = 0
    /\ current_search' = <<>>
    /\ view' = "Type to search drivers..."
    /\ list_store' = Placeholder
    /\ UNCHANGED <<core, app, inst, timers, keys, submitted, dispatched, pool,
                   results, late>>

\* on_search_changed (lines 788-798)
on_search_changed ==
    /\ dialog
    /\ keys < MaxKeys
    /\ \E text \in EntryTexts \ {entry} :
         /\ entry' = text
         /\ keys' = keys + 1
         /\ search_task_id' = keys'
         /\ timers' =
              timeout_add(IF search_task_id # 0
                          THEN source_remove(timers, search_task_id)
                          ELSE timers,
                          keys', SEARCH_DEBOUNCE_MS, Strip(text))
    /\ UNCHANGED <<core, app, inst, dialog, current_search, view, submitted,
                   dispatched, pool, results, list_store, late>>

\* a pending timeout expires: perform_search_debounced (lines 800-805)
perform_search_debounced ==
    /\ dialog
    /\ \E t \in timers :
         /\ timers' = timers \ {t}
         /\ IF t.text # current_search
            THEN /\ CanSubmit(Strip(entry))
                 /\ current_search' = t.text
                 /\ view' = SearchView(Strip(entry))
                 /\ submitted' = submitted \o
                        Searches(Strip(entry), [timer |-> t.id])
                 /\ pool' = pool \o Submitted(Strip(entry), dispatched + 1)
                 /\ dispatched' = dispatched
                                     + Len(Submitted(Strip(entry), 0))
                 /\ list_store' = Placeholder
            ELSE UNCHANGED <<current_search, view, submitted, pool,
                             dispatched, list_store>>
    /\ search_task_id' = 0
    /\ UNCHANGED <<core, app, inst, dialog, entry, keys, results, late>>

\* on_search_activate (lines 785-786)
on_search_activate ==
    /\ dialog
    /\ CanSubmit(Strip(entry))
    /\ view' = SearchView(Strip(entry))
    /\ submitted' = submitted \o Searches(Strip(entry), [timer |-> 0])
    /\ pool' = pool \o Submitted(Strip(entry), dispatched + 1)
    /\ dispatched' = dispatched + Len(Submitted(Strip(entry), 0))
    /\ list_store' = Placeholder
    /\ UNCHANGED <<core, app, inst, dialog, entry, search_task_id, timers,
                   current_search, keys, results, late>>

\* dialog.run() returns and show() ends (lines 773-783); the searches of
\* the dialog stay with the executor
show_return ==
    /\ dialog
    /\ dialog' = FALSE
    /\ timers' = IF search_task_id # 0
                 THEN source_remove(timers, search_task_id)
                 ELSE timers
    /\ submitted' = <<>>
    /\ pool' = Closed(pool)
    /\ results' = Closed(results)
    /\ UNCHANGED <<core, app, inst, entry, search_task_id, current_search, keys,
                   view, dispatched, list_store, late>>

\* the searches the pool is running
Running == {i \in 1..Len(pool) : pool[i].state = "running"}

\* a worker of the pool takes the oldest search waiting
search_drivers_background_start ==
    /\ Cardinality(Running) < max_workers
    /\ \E i \in 1..Len(pool) :
         /\ pool[i].state = "queued"
         /\ \A j \in 1..(i - 1) : pool[j].state = "running"
         /\ pool' = [pool EXCEPT ![i].state = "running"]
    /\ UNCHANGED <<core, app, inst, dialog, entry, search_task_id, timers,
                   current_search, keys, view, submitted, dispatched, results,
                   list_store, late>>

Without_(q, i) == SubSeq(q, 1, i - 1) \o SubSeq(q, i + 1, Len(q))

\* search_drivers_background (lines 830-837): a search that is running ends,
\* with drivers or with an error, and posts update_driver_list
search_drivers_background ==
    /\ \E i \in Running :
         /\ pool' = Without_(pool, i)
         /\ results' = Append(results,
                              [keyword |-> pool[i].keyword, n |-> pool[i].n,
                               closed |-> pool[i].closed])
    /\ UNCHANGED <<core, app, inst, dialog, entry, search_task_id, timers,
                   current_search, keys, view, submitted, dispatched,
                   list_store, late>>

\* update_driver_list (lines 839-877), run by the main loop: the list is
\* cleared and filled with the drivers handed over, whatever search is the
\* current one and whether or not the dialog is still there
update_driver_list ==
    /\ results # <<>>
    /\ results' = Tail(results)
    /\ IF Head(results).closed
       THEN late' = TRUE /\ list_store' = list_store
       ELSE /\ late' = late
            /\ list_store' = [kind |-> "result",
                              keyword |-> Head(results).keyword,
                              n |-> Head(results).n]
    /\ UNCHANGED <<core, app, inst, dialog, entry, search_task_id, timers,
                   current_search, keys, view, submitted, dispatched, pool>>

\***************************************************************************
\* Claims about the debounced search
\***************************************************************************
\* C20: at most one debounce timeout is pending at any time, and it is the
\* one armed by the latest change of the entry; a change of the entry leaves
\* exactly the timeout it arms (300 ms, for the stripped text) pending; and
\* a search handed to the executor by a timeout is handed by the timeout of
\* the latest change: no later change of the entry has happened.
C20_Debounce ==
    /\ [](/\ Cardinality(timers) <= 1
          /\ \A t \in timers : t.id = keys /\ t.id = search_task_id
          /\ \A i \in 1..Len(submitted) :
               submitted[i].by.timer # 0
                  => submitted[i].by.timer = submitted[i].keys)
    /\ [][keys' # keys
            => /\ keys' = keys + 1
               /\ \E t \in timers' :
                    /\ timers' = {t}
                    /\ t.id = keys'
                    /\ t.ms = 300
                    /\ t \notin timers
               /\ submitted' = submitted]_vars

C20_Witness ==
    /\ dialog
    /\ keys = 2
    /\ timers = {}
    /\ entry = <<"e","p">>
    /\ current_search = <<"e","p">>
    /\ Len(submitted) = 1
    /\ submitted[1].keyword = <<"e","p">>
    /\ submitted[1].by.timer = 2

\***************************************************************************
\* Claims about change_driver and delete_printer
\***************************************************************************
InChangeDriver == op = "change_driver"

CreateForm == "sudo lpadmin -p <name> -v usb:// -E -m <driver>"
UpdateForm == "sudo lpadmin -p <name> -m <driver> -E"

CmdAt(i) == calls[i].cmd
OutAt(i) == calls[i].out

\* C21: the commands change_driver has issued are, in order, a prefix of:
\* cancel the jobs of the name, the existence check, one lpadmin command,
\* cupsenable, cupsaccept.  The lpadmin command is the create form (bound to
\* usb://) if and only if the existence check exited non-zero and the update
\* form if and only if it exited zero; it is issued once, and before the
\* operation returns whenever the two commands before it did not raise; and
\* cupsenable is issued only after it exited zero.
C21_ChangeDriverOrder ==
    InChangeDriver =>
        /\ Len(calls) <= 5
        /\ Len(calls) >= 1 => CmdAt(1) = "sudo cancel -a <name>"
        /\ Len(calls) >= 2 => CmdAt(2) = "lpstat -p <name>"
        /\ Len(calls) >= 3 =>
              /\ OutAt(2) \in {"ok", "fail"}
              /\ (CmdAt(3) = CreateForm) <=> (OutAt(2) = "fail")
              /\ (CmdAt(3) = UpdateForm) <=> (OutAt(2) = "ok")
        /\ Len(calls) >= 4 =>
              /\ OutAt(3) = "ok"
              /\ CmdAt(4) = "sudo cupsenable <name>"
        /\ Len(calls) >= 5 => CmdAt(5) = "sudo cupsaccept <name>"
        /\ (pc = "done" /\ Len(calls) < 3)
              => \E i \in 1..Len(calls) : OutAt(i) \in {"timeout", "oserror"}

C21_Witness ==
    /\ InChangeDriver /\ pc = "done"
    /\ calls = <<[cmd |-> "sudo cancel -a <name>", out |-> "fail"],
                 [cmd |-> "lpstat -p <name>", out |-> "fail"],
                 [cmd |-> CreateForm, out |-> "ok"],
                 [cmd |-> "sudo cupsenable <name>", out |-> "ok"],
                 [cmd |-> "sudo cupsaccept <name>", out |-> "ok"]>>

InDelete == op = "delete_printer"

\* C22: delete_printer issues the cancel of the queue's jobs first and
\* lpadmin -x second, whatever the exit status of the cancel; once lpadmin -x
\* has exited, the operation has returned, with success if and only if it
\* exited zero, and otherwise with a failure whose message carries what the
\* command printed (stderr, or stdout when stderr is empty).
C22_DeleteOrderAndResult ==
    InDelete =>
        /\ Len(calls) <= 2
        /\ Len(calls) >= 1 => CmdAt(1) = "sudo cancel -a <name>"
        /\ Len(calls) >= 2 => CmdAt(2) = "sudo lpadmin -x <name>"
        /\ (pc = "done" /\ Len(calls) = 1) => OutAt(1) \in {"timeout", "oserror"}
        /\ (Len(calls) = 1 /\ OutAt(1) \in {"ok", "fail"}) => pc = "remove"
        /\ (Len(calls) = 2 /\ OutAt(2) \in {"ok", "fail"}) =>
              /\ pc = "done"
              /\ ret.ok <=> (OutAt(2) = "ok")
              /\ ~ret.ok =>
                   ret.msg = "Failed to delete printer: " \o
                       (IF arg.stderr = "" THEN arg.stdout ELSE arg.stderr)

C22_Witness ==
    /\ InDelete /\ pc = "done"
    /\ Len(calls) = 2
    /\ OutAt(1) = "fail" /\ OutAt(2) = "fail"
    /\ arg.stderr = "" /\ arg.stdout = "lpadmin: failed"
    /\ ret = [ok |-> FALSE, msg |-> "Failed to delete printer: lpadmin: failed"]

\***************************************************************************
\* Claims about the installs started by process_usb_device
\***************************************************************************
\* the models of the inputs that are not keys of the predefined map, with
\* the queue names derived from them
OtherModels == {<<"X","1","0","0">>, <<"X","-","1">>}

DerivedName(model) == IF model = <<"X","-","1">> THEN <<"X","_","1">> ELSE model

\* C23: for a detected model that is not a key of the predefined map, the
\* handler starts no install when the dialog is answered NO, and once it has
\* returned after a YES it has started exactly one install, of the queue
\* name derived from the model, with the driver selected in the search
\* dialog when one was selected and with the generic driver otherwise.
C23_OneInstallAfterAcceptance ==
    (/\ op = "process_usb_device"
     /\ ret.model.tag = "Some"
     /\ ret.model.val \in OtherModels)
        => /\ Len(ret.installs) <= 1
           /\ ret.response = "NO" => pc = "done" /\ ret.installs = <<>>
           /\ ret.installs # <<>> => pc = "done"
           /\ (pc = "done" /\ ret.response = "YES") =>
                 /\ Len(ret.installs) = 1
                 /\ ret.installs[1].name = DerivedName(ret.model.val)
                 /\ ret.installs[1].driver =
                      IF ret.selected_driver = [tag |-> "Some",
                                                val |-> "epson.ppd"]
                      THEN "epson.ppd"
                      ELSE "drv:///sample.drv/generic.ppd"

C23_Witness ==
    /\ op = "process_usb_device" /\ pc = "done"
    /\ ret.model = Some(<<"X","-","1">>)
    /\ ret.response = "YES"
    /\ ret.selected_driver = Some("epson.ppd")
    /\ ret.installs = <<[name |-> <<"X","_","1">>, driver |-> "epson.ppd"]>>

\***************************************************************************
\* PrinterManager.get_available_printers and get_printer_details
\* (lines 306-396)
\***************************************************************************
CmdDetails == "lpstat -p <name> -l"
CmdJobsOf == "lpstat -o <name>"

\* str.replace(key, ""): every occurrence of key is taken out
RECURSIVE Without(_, _)
Without(s, key) ==
    IF s = <<>> THEN <<>>
    ELSE IF StartsWith(s, key) THEN Without(SubSeq(s, Len(key) + 1, Len(s)), key)
    ELSE <<Head(s)>> \o Without(Tail(s), key)

\* the loop of lines 369-376 over the lines of lpstat -p name -l
RECURSIVE ParseDetails(_, _)
ParseDetails(lines, details) ==
    IF lines = <<>> THEN details
    ELSE LET line == Strip(Head(lines))
             next ==
               IF Contains(line, <<"D","e","s","c","r","i","p","t","i","o","n",":">>)
               THEN [details EXCEPT
                       !.description = Strip(Without(line, <<"D","e","s","c","r","i","p","t","i","o","n",":">>))]
               ELSE IF Contains(line, <<"L","o","c","a","t","i","o","n",":">>)
               THEN [details EXCEPT
                       !.location = Strip(Without(line, <<"L","o","c","a","t","i","o","n",":">>))]
               ELSE IF Contains(line, <<"D","e","v","i","c","e","U","R","I",":">>)
               THEN [details EXCEPT
                       !.uri = Strip(Without(line, <<"D","e","v","i","c","e","U","R","I",":">>))]
               ELSE details
         IN  ParseDetails(Tail(lines), next)

\* details.get(key, "") for the three keys, after get_printer_details: the
\* attributes are looked for only when the command exited zero
get_printer_details(o, out) ==
    LET none == [description |-> <<>>, location |-> <<>>, uri |-> <<>>]
    IN  IF o = "ok" THEN ParseDetails(out, none) ELSE none

\* "has_issues" of an entry of the list  (lines 337-339)
list_has_issues(status_text) ==
    \/ Contains(Lower(status_text), <<"p","r","o","c","e","s","s","i","n","g">>)
    \/ Contains(Lower(status_text), <<"s","t","o","p","p","e","d">>)
    \/ Contains(Lower(status_text), <<"d","i","s","a","b","l","e","d">>)

\* one line of lpstat -p: the name and the status of lines 323-327, or
\* nothing
ListedLine(line) ==
    LET parts == Split(line)
    IN  IF StartsWith(line, <<"p","r","i","n","t","e","r"," ">>) /\ Len(parts) >= 2
        THEN <<[name |-> parts[2],
                status |-> IF Len(parts) > 2
                           THEN Join(SubSeq(parts, 3, Len(parts)), <<" ">>)
                           ELSE <<>>]>>
        ELSE <<>>

RECURSIVE Listed(_)
Listed(lines) ==
    IF lines = <<>> THEN <<>>
    ELSE ListedLine(Head(lines)) \o Listed(Tail(lines))

\* Inputs: what lpstat -p and lpstat -p name -l may print
ListPrefixes ==
    {<<>>, <<<<"p","r","i","n","t","e","r","X"," ","B">>>>, <<<<"p","r","i","n","t","e","r"," ">>>>,
     <<<<"p","r","i","n","t","e","r"," "," ","A","\t","D","i","s","a","b","l","e","d"," "," ","s","i","n","c","e"," ","M","o","n">>>>}

PrinterListings ==
    {f \o g : f \in ListPrefixes,
              g \in {<<>>} \cup {<<l>> : l \in GeneratedLines}}

DetailOutputs ==
    {<<<<"p","r","i","n","t","e","r"," ","A"," ","i","s"," ","i","d","l","e",".">>, <<"\t","D","e","s","c","r","i","p","t","i","o","n",":"," ","F","r","o","n","t"," ","d","e","s","k"," ">>,
       <<"\t","L","o","c","a","t","i","o","n",":">>, <<"\t","D","e","v","i","c","e","U","R","I",":"," ","u","s","b",":","/","/","A","c","m","e","/","X","1","0","0"," ","D","e","s","c","r","i","p","t","i","o","n",":">>>>}

get_available_printers_start ==
    /\ op = "idle"
    /\ op' = "get_available_printers"
    /\ pc' = "list"
    /\ UNCHANGED <<others, calls, status, arg, method, ret>>

\* lpstat -p and the lines it printed (lines 312-327, 346-351); the listing
\* and the printers found in it are kept in arg
get_available_printers_list ==
    /\ op = "get_available_printers" /\ pc = "list"
    /\ \E o \in Outcomes :
        /\ calls' = Append(calls, Call(CmdList, o))
        /\ \E out \in (IF o = "ok" THEN PrinterListings ELSE {<<>>}) :
            /\ arg' = [listing |-> out, found |-> Listed(out)]
            /\ pc' = IF Listed(out) = <<>> THEN "done" ELSE "details"
            /\ method' = IF Listed(out) = <<>> THEN method ELSE 1
    /\ ret' = <<>>
    /\ UNCHANGED <<others, op, status>>

\* one printer of the list: get_printer_details, whose own try block keeps
\* its exceptions, and the entry appended (lines 329-341, 354-396)
get_available_printers_details ==
    /\ op = "get_available_printers" /\ pc = "details"
    /\ method \in 1..Len(arg.found)
    /\ \E o \in Outcomes, out \in DetailOutputs :
        LET found == arg.found[method]
            details == get_printer_details(o, out)
        IN  /\ \/ /\ Raises(o)
                  /\ calls' = Append(calls, Call(CmdDetails, o))
               \/ /\ ~Raises(o)
                  /\ \E jobs \in Outcomes :
                       calls' = calls \o <<Call(CmdDetails, o),
                                           Call(CmdJobsOf, jobs)>>
            /\ ret' = Append(ret,
                        [name |-> found.name,
                         status |-> found.status,
                         description |-> details.description,
                         location |-> details.location,
                         uri |-> details.uri,
                         is_enabled |-> Contains(Lower(found.status), <<"e","n","a","b","l","e","d">>),
                         has_issues |-> list_has_issues(found.status)])
    /\ IF method = Len(arg.found)
       THEN pc' = "done" /\ method' = method
       ELSE pc' = "details" /\ method' = method + 1
    /\ UNCHANGED <<others, op, status, arg>>

\***************************************************************************
\* Claims about get_available_printers
\***************************************************************************
\* C24: the has_issues flag of every entry of the list get_available_printers
\* returns is the flag of the health check's rule: true if and only if the
\* status text contains "processing" or "stopped", whatever the case of the
\* letters.
C24_ListFlagIsHealthRule ==
    op = "get_available_printers" =>
        \A i \in 1..Len(ret) :
            ret[i].has_issues <=>
                \/ ContainsIgnoringCase(ret[i].status, <<"p","r","o","c","e","s","s","i","n","g">>)
                \/ ContainsIgnoringCase(ret[i].status, <<"s","t","o","p","p","e","d">>)

\***************************************************************************
\* Claims about the status get_cups_status returns
\***************************************************************************
HealthReturned == op = "get_cups_status" /\ pc = "done"

\* the outcome of the command in this check, "" when it was not run
OutcomeOf(cmd) ==
    IF \E i \in 1..Len(calls) : calls[i].cmd = cmd
    THEN calls[CHOOSE i \in 1..Len(calls) : calls[i].cmd = cmd].out
    ELSE ""

\* C25: in the status a health check returns, cups_hung is TRUE if and only
\* if the service-active query exited zero in this check and either the
\* probe (lpstat -r) exited non-zero or timed out, or the queue listing
\* (lpstat -p) timed out; cups_hung implies cups_active; and after a
\* timeout of the queue listing the status has no printer and a count of 0.
C25_HungIffProbeOrListingFails ==
    HealthReturned =>
        /\ status.cups_hung <=>
              /\ OutcomeOf("systemctl is-active cups") = "ok"
              /\ \/ OutcomeOf("lpstat -r") \in {"fail", "timeout"}
                 \/ OutcomeOf("lpstat -p") = "timeout"
        /\ status.cups_hung => status.cups_active
        /\ OutcomeOf("lpstat -p") = "timeout"
              => /\ status.printers = <<>>
                 /\ status.total_printers = 0
                 /\ status.problem_printers = 0

C25_Witness ==
    /\ HealthReturned
    /\ OutcomeOf("lpstat -r") = "ok"
    /\ OutcomeOf("lpstat -p") = "timeout"
    /\ status.cups_hung /\ status.cups_active
    /\ status.total_printers = 0

\* C26: a stuck-job query (lpstat -o) that exits non-zero, times out or
\* raises changes nothing in the status: every field is what it was before
\* the query, stuck_jobs is 0, and the check returns this status.
C26_StuckFailureIsSwallowed ==
    [][(/\ op = "get_cups_status" /\ pc = "stuck"
        /\ Len(calls') = Len(calls) + 1
        /\ calls'[Len(calls')].out # "ok")
          => /\ calls'[Len(calls')].cmd = "lpstat -o"
             /\ status' = status
             /\ status'.stuck_jobs = 0
             /\ pc' = "done"]_vars

C26_Witness ==
    /\ HealthReturned
    /\ OutcomeOf("lpstat -o") = "timeout"
    /\ status.error = "<None>"
    /\ status.stuck_jobs = 0
    /\ status.total_printers = 2
    /\ status.cups_active /\ ~status.cups_hung

\***************************************************************************
\* Claims about the order, the result and the transcript of fix_cups_issues
\***************************************************************************
RecoveryActions ==
    <<"sudo systemctl stop cups-browsed", "sudo cancel -a",
      "clean /var/spool/cups", "sudo systemctl restart cups",
      "systemctl is-active cups">>

\* C27: at every moment of a recovery the actions issued so far are the
\* first ones of stop auto-discovery, cancel all jobs, spool cleanup,
\* restart daemon, verify active, in this order, each once; the verify
\* query is there only when the restart command before it exited zero.
C27_RecoveryOrder ==
    op = "fix_cups_issues" =>
        /\ Len(calls) <= 5
        /\ \A i \in 1..Len(calls) : calls[i].cmd = RecoveryActions[i]
        /\ Len(calls) = 5 => calls[4].out = "ok"

\* a recovery that verified the service after issuing the four actions
\* before it, two of which failed
C27_Witness ==
    /\ op = "fix_cups_issues" /\ pc = "done"
    /\ Len(calls) = 5
    /\ calls[1].out = "fail" /\ calls[3].out = "error"
    /\ calls[4].out = "ok"
    /\ calls[5].cmd = "systemctl is-active cups"

\* C28: a recovery returns success exactly when the restart command exited
\* zero and the verify query after it exited zero (service active); what
\* steps 1 to 3 returned has no part in it.
C28_SuccessIffRestartedAndActive ==
    (op = "fix_cups_issues" /\ pc = "done") =>
        (ret.success <=>
            /\ OutcomeOf("sudo systemctl restart cups") = "ok"
            /\ Len(calls) = 5
            /\ calls[5].out = "ok")

\* a successful recovery whose steps 1 to 3 all failed
C28_Witness ==
    /\ op = "fix_cups_issues" /\ pc = "done"
    /\ ret.success
    /\ OutcomeOf("sudo systemctl stop cups-browsed") = "fail"
    /\ OutcomeOf("sudo cancel -a") = "fail"
    /\ OutcomeOf("clean /var/spool/cups") = "error"

\* the transcript has a check-mark line with this text
Checked(text) ==
    \E i \in 1..Len(ret.steps) :
        ret.steps[i].mark = "check mark" /\ ret.steps[i].text = text

\* C29 (as stated): a step has a check mark in the transcript only if its
\* command exited zero (steps 1, 2, 4, 5) or its cleanup completed without
\* error (step 3).
C29_CheckMarkOnlyOnSuccess ==
    op = "fix_cups_issues" =>
        /\ Checked("cups-browsed stopped")
              => OutcomeOf("sudo systemctl stop cups-browsed") = "ok"
        /\ Checked("All jobs cancelled")
              => OutcomeOf("sudo cancel -a") = "ok"
        /\ Checked("Spool directory cleaned")
              => OutcomeOf("clean /var/spool/cups") = "cleaned"
        /\ Checked("CUPS restarted")
              => OutcomeOf("sudo systemctl restart cups") = "ok"
        /\ Checked("CUPS is active and running")
              => OutcomeOf("systemctl is-active cups") = "ok"

\***************************************************************************
\* Claim about the failure of a test print
\***************************************************************************
SubmitCommands == {"lp -d <name>", "lpr -P <name>", "lp -d <name> -o raw"}

\* the submit commands a test print has run
Attempted == {calls[i].cmd : i \in 1..Len(calls)} \cap SubmitCommands

\* C30 (as stated): a test print of a queue that exists (lpstat -p <name>
\* exited zero) returns failure only after the three submit methods were
\* all run and each one failed, by a non-zero exit, a timeout or a command
\* that cannot be launched.
C30_FailureOnlyAfterThreeAttempts ==
    (/\ op = "test_printer" /\ pc = "done"
     /\ OutcomeOf("lpstat -p <name>") = "ok"
     /\ ~ret.ok)
        => /\ Attempted = SubmitCommands
           /\ \A i \in 1..Len(calls) :
                 calls[i].cmd \in SubmitCommands => calls[i].out # "ok"

\***************************************************************************
\* Claim about the result of change_driver
\***************************************************************************
ChangeDriverDone == op = "change_driver" /\ pc = "done"

\* the outcome of the lpadmin command of this change, "" before it is run
ConfigureOutcome == IF Len(calls) >= 3 THEN calls[3].out ELSE ""

NoneRaised ==
    \A i \in 1..Len(calls) : calls[i].out \notin {"timeout", "oserror"}

\* C31: change_driver returns success exactly when the lpadmin command
\* (create or update form) exited zero and no command raised; when lpadmin
\* exits non-zero the result is a failure whose message carries what it
\* printed on stderr, or on stdout when stderr is empty, and neither
\* cupsenable nor cupsaccept is run; the exit statuses of cancel, cupsenable
\* and cupsaccept have no part in the result.
C31_ChangeDriverResult ==
    ChangeDriverDone =>
        /\ ret.ok <=> (ConfigureOutcome = "ok" /\ NoneRaised)
        /\ ConfigureOutcome = "fail" =>
              /\ ~ret.ok
              /\ ret.msg = "Failed to configure printer: " \o
                    (IF arg.stderr = "" THEN arg.stdout ELSE arg.stderr)
              /\ Len(calls) = 3
              /\ \A i \in 1..Len(calls) :
                    calls[i].cmd \notin {"sudo cupsenable <name>",
                                         "sudo cupsaccept <name>"}

\* a successful change whose cancel, cupsenable and cupsaccept all exited
\* non-zero
C31_Witness ==
    /\ ChangeDriverDone
    /\ ret.ok
    /\ Len(calls) = 5
    /\ calls[1].out = "fail" /\ calls[4].out = "fail" /\ calls[5].out = "fail"
    /\ calls[3].cmd \in {"sudo lpadmin -p <name> -v usb:// -E -m <driver>",
                         "sudo lpadmin -p <name> -m <driver> -E"}

\***************************************************************************
\* Claim about the device a hot-plug event is handled for
\***************************************************************************
InHotPlug == op = "process_usb_device"

\* the identity file of the device that was added has no content, or the
\* device has no such file
AddedHasNoIdentity ==
    \/ ret.added = 0
    \/ arg[ret.added].tag = "None"
    \/ \A i \in 1..Len(arg[ret.added].val) :
          arg[ret.added].val[i] \in {" ", "\n", "\t"}

\* C32 (as stated): the handler of an add event for a device that exposes no
\* IEEE-1284 identity never reaches the installation workflow (the dialog
\* is never answered, nothing is installed), whatever other printers are
\* attached.
C32_NoWorkflowWithoutIdentity ==
    (InHotPlug /\ AddedHasNoIdentity) =>
        /\ ~ret.prompted
        /\ ret.installs = <<>>

\***************************************************************************
\* Claim about the events the watch loop schedules a handler for
\***************************************************************************
\* the hot-plug handlers waiting in the queue q of idle callbacks
Waiting(q) == Len(SelectSeq(q, LAMBDA cb : cb = "process_usb_device"))

\* C33: a step adds a hot-plug handler to the idle callbacks only if it is
\* the watch loop receiving an event "add" of a USB device node with the
\* monitoring flag set, and such a step adds exactly one; with the flag
\* cleared no step adds a handler, an event received ends the for loop and
\* takes the thread to the test of the flag, the test ends the thread, and
\* the monitor is not set up again.
C33_HandlerPerAddEvent ==
    [][/\ Waiting(idle') > Waiting(idle)
          => /\ monitoring
             /\ watcher = "poll"
             /\ last' = [thread |-> "monitor_printers",
                         blocking |-> {"monitor.poll"},
                         display |-> FALSE, event |-> "add usb_device"]
       /\ (/\ monitoring /\ watcher = "poll"
           /\ last'.thread = "monitor_printers"
           /\ last'.event = "add usb_device")
          => Waiting(idle') = Waiting(idle) + 1
       /\ (~monitoring /\ watcher = "poll" /\ watcher' # watcher)
          => watcher' \in {"check", "backoff"}
       /\ (~monitoring /\ watcher = "poll"
           /\ last'.event \in {"add usb_device", "add usb_interface",
                               "remove usb_device"})
          => watcher' = "check"
       /\ (~monitoring /\ watcher \in {"check", "backoff"}
           /\ watcher' # watcher)
          => watcher' = (IF watcher = "check" THEN "exited" ELSE "check")
       /\ (~monitoring /\ watcher # "setup") => watcher' # "setup"]_vars

\* the flag was cleared with a handler scheduled before, and the thread has
\* ended
C33_Witness ==
    /\ ~monitoring
    /\ watcher = "exited"
    /\ Waiting(idle) = 1
    /\ last.thread = "monitor_printers"

\***************************************************************************
\* MainWindow.install_driver (lines 1677-1691): every call starts a thread
\* that runs change_driver (lines 610-660) against the queues of CUPS
\***************************************************************************
MaxInstalls == 2     \* install_in_background threads alive at a time

NotStarted == [name |-> "", pc |-> "none", form |-> ""]

\* the threads that have not returned
InFlight == {t \in 1..MaxInstalls : installing[t].pc # "none"}

\* install_driver starts its thread whatever installs are in progress: it
\* holds no lock and keeps no record of the names being installed.
\* install_driver, as called by on_change_driver (line 1470), the driver
\* dialog (line 1621), on_install_manual (line 1670) and process_usb_device
\* (lines 1745-1755)
install_driver ==
    \E t \in 1..MaxInstalls, name \in QueueNames :
        /\ installing[t].pc = "none"
        /\ installing' = [installing EXCEPT
                             ![t] = [name |-> name, pc |-> "cancel",
                                     form |-> ""]]
        /\ UNCHANGED <<core, app, search, queues>>

\* the thread returns: the except clause of lines 658-660, or a return
Returned == NotStarted

\* sudo cancel -a <name>; its exit status is not looked at (lines 615-618)
install_cancel ==
    \E t \in InFlight, o \in Outcomes :
        /\ installing[t].pc = "cancel"
        /\ installing' = [installing EXCEPT
                             ![t] = IF Raises(o) THEN Returned
                                    ELSE [@ EXCEPT !.pc = "exists"]]
        /\ UNCHANGED <<core, app, search, queues>>

\* lpstat -p <name> and the choice of the lpadmin form (lines 620-630)
install_exists ==
    \E t \in InFlight, raised \in BOOLEAN :
        /\ installing[t].pc = "exists"
        /\ installing' = [installing EXCEPT
                             ![t] = IF raised THEN Returned
                                    ELSE [@ EXCEPT
                                            !.pc = "configure",
                                            !.form =
                                              IF installing[t].name \in queues
                                              THEN "update" ELSE "create"]]
        /\ UNCHANGED <<core, app, search, queues>>

\* sudo lpadmin in the form chosen (lines 630-645): exit status zero leaves
\* CUPS with the queue
install_configure ==
    \E t \in InFlight, o \in Outcomes :
        /\ installing[t].pc = "configure"
        /\ installing' = [installing EXCEPT
                             ![t] = IF o = "ok" THEN [@ EXCEPT !.pc = "enable"]
                                    ELSE Returned]
        /\ queues' = IF o = "ok" THEN queues \cup {installing[t].name}
                     ELSE queues
        /\ UNCHANGED <<core, app, search>>

\* sudo cupsenable <name>  (lines 648-649)
install_enable ==
    \E t \in InFlight, o \in Outcomes :
        /\ installing[t].pc = "enable"
        /\ installing' = [installing EXCEPT
                             ![t] = IF Raises(o) THEN Returned
                                    ELSE [@ EXCEPT !.pc = "accept"]]
        /\ UNCHANGED <<core, app, search, queues>>

\* sudo cupsaccept <name>, and the return of the thread (lines 650-656,
\* 1683-1689)
install_accept ==
    \E t \in InFlight, o \in Outcomes :
        /\ installing[t].pc = "accept"
        /\ installing' = [installing EXCEPT ![t] = Returned]
        /\ UNCHANGED <<core, app, search, queues>>

\***************************************************************************
\* Claim about installs of one queue name
\***************************************************************************
\* C34 (as stated): no two installs of the same queue name are in flight at
\* the same time, and so no two of them have both found the queue absent
\* and chosen the create form of lpadmin.
C34_InstallsSerializedPerName ==
    /\ \A t, u \in InFlight :
          t # u => installing[t].name # installing[u].name
    /\ \A t, u \in InFlight :
          (t # u /\ installing[t].name = installing[u].name)
              => ~(installing[t].form = "create"
                   /\ installing[u].form = "create")

\***************************************************************************
\* Claim about the status refresh posted by a finished action
\***************************************************************************
\* the status refreshes waiting in the queue q of idle callbacks
Refreshes(q) == Len(SelectSeq(q, LAMBDA cb : cb = "update_cups_status"))

\* C35 (as stated): a status refresh posted with GLib.idle_add is one-shot:
\* the step of the main loop that runs it takes it off the idle callbacks
\* for good, so that one posted refresh starts one health check.
C35_RefreshIsOneShot ==
    [][(/\ idle # <<>>
        /\ Head(idle) = "update_cups_status"
        /\ last'.thread = "ui"
        /\ workers'["update_in_background"]
              = workers["update_in_background"] + 1
        /\ idle' # idle)
          => Refreshes(idle') = Refreshes(idle) - 1]_vars

\***************************************************************************
\* Claim about the results of concurrent driver searches
\***************************************************************************
\* the searches of the dialog on screen that have not been delivered yet
Outstanding ==
    Len(SelectSeq(pool, LAMBDA s : ~s.closed))
      + Len(SelectSeq(results, LAMBDA r : ~r.closed))

\* C36 (as stated): once the searches of the dialog have all completed and
\* their results have been delivered, a driver list that shows a result
\* shows that of the keyword dispatched last; and no result is applied to a
\* dialog that has been closed.
C36_NewestResultShown ==
    /\ (dialog /\ Outstanding = 0 /\ list_store.kind = "result")
          => /\ submitted # <<>>
             /\ list_store.keyword = submitted[Len(submitted)].keyword
    /\ ~late

\***************************************************************************
\* Claim about the counts of a status
\***************************************************************************
\* C37: in the status a health check returns, total_printers is the number
\* of entries of printers and problem_printers the number of those with
\* has_issues, so that 0 <= problem_printers <= total_printers; when the
\* check stopped at the service-active query or at the probe, printers is
\* empty and both counts are 0.
C37_CountsMatchPrinters ==
    HealthReturned =>
        /\ status.total_printers = Len(status.printers)
        /\ status.problem_printers =
              Cardinality({i \in 1..Len(status.printers) :
                              status.printers[i].has_issues})
        /\ 0 <= status.problem_printers
        /\ status.problem_printers <= status.total_printers
        /\ (OutcomeOf("systemctl is-active cups") # "ok"
            \/ OutcomeOf("lpstat -r") # "ok")
              => /\ status.printers = <<>>
                 /\ status.total_printers = 0
                 /\ status.problem_printers = 0

\* a status with two printers, one of them with issues
C37_Witness ==
    /\ HealthReturned
    /\ status.total_printers = 2
    /\ status.problem_printers = 1
    /\ Len(status.printers) = 2

\***************************************************************************
\* CUPSHealthManager.disable_ubuntu_autoconfig (lines 242-271)
\***************************************************************************
CmdDisableBrowsed == "sudo systemctl disable cups-browsed"
CmdWriteStaging == "write /tmp/cups-browsed-disable.conf"
CmdCopyStaging ==
    "sudo cp /tmp/cups-browsed-disable.conf /etc/cups/cups-browsed.conf"

\* the steps of the try block, in order (lines 248-263)
AutoconfigSteps ==
    <<CmdStopBrowsed, CmdDisableBrowsed, CmdWriteStaging, CmdCopyStaging>>

\* a command returns or raises; open() and write() return or raise OSError
StepOutcomes(cmd) ==
    IF cmd = CmdWriteStaging THEN {"ok", "oserror"} ELSE Outcomes

\* a mutation of AutoconfigSuccess: a last command that exits non-zero is a
\* failure
AutoconfigSuccess_ExitZero(o) == o = "ok"

\* return True  (line 266): the exit statuses are not looked at
AutoconfigSuccess(o) == TRUE

disable_ubuntu_autoconfig_start ==
    /\ op = "idle"
    /\ op' = "disable_ubuntu_autoconfig"
    /\ pc' = "step"
    /\ method' = 1
    /\ UNCHANGED <<others, calls, status, arg, ret>>

\* one statement of the try block; except Exception: return False
\* (lines 248-271)
disable_ubuntu_autoconfig_step ==
    /\ op = "disable_ubuntu_autoconfig" /\ pc = "step"
    /\ \E o \in StepOutcomes(AutoconfigSteps[method]) :
        /\ calls' = Append(calls, Call(AutoconfigSteps[method], o))
        /\ IF Raises(o)
           THEN /\ pc' = ExceptPc
                /\ ret' = [success |-> FALSE]
                /\ method' = method
           ELSE IF method < Len(AutoconfigSteps)
           THEN /\ pc' = "step"
                /\ ret' = ret
                /\ method' = method + 1
           ELSE /\ pc' = "done"
                /\ ret' = [success |-> AutoconfigSuccess(o)]
                /\ method' = method
    /\ UNCHANGED <<others, op, status, arg>>

\***************************************************************************
\* Claim about disable_ubuntu_autoconfig
\***************************************************************************
AutoconfigActions ==
    <<"sudo systemctl stop cups-browsed",
      "sudo systemctl disable cups-browsed",
      "write /tmp/cups-browsed-disable.conf",
      "sudo cp /tmp/cups-browsed-disable.conf /etc/cups/cups-browsed.conf">>

\* C38: disable_ubuntu_autoconfig issues stop, disable, the write of the
\* staging file and the privileged copy, in this order and nothing else (no
\* job is cancelled, the daemon is not restarted); it returns True exactly
\* when none of the four raised, whatever the commands' exit statuses, and
\* False exactly when one raised, and then that one is the last step run.
C38_AutoconfigStepsAndResult ==
    op = "disable_ubuntu_autoconfig" =>
        /\ Len(calls) <= 4
        /\ \A i \in 1..Len(calls) : calls[i].cmd = AutoconfigActions[i]
        /\ \A i \in 1..(Len(calls) - 1) :
              calls[i].out \notin {"timeout", "oserror"}
        /\ pc = "done" =>
              /\ ret.success <=> (Len(calls) = 4 /\ NoneRaised)
              /\ ~ret.success <=>
                    calls[Len(calls)].out \in {"timeout", "oserror"}

\* True is returned although the three commands exited non-zero
C38_Witness ==
    /\ op = "disable_ubuntu_autoconfig" /\ pc = "done"
    /\ ret.success
    /\ calls[1].out = "fail" /\ calls[2].out = "fail" /\ calls[4].out = "fail"
    /\ calls[3].out = "ok"

\***************************************************************************
\* Specification
\***************************************************************************
InitSearch ==
    /\ dialog = FALSE
    /\ entry = <<>>
    /\ search_task_id = 0
    /\ timers = {}
    /\ current_search = <<>>
    /\ keys = 0
    /\ view = ""
    /\ submitted = <<>>
    /\ dispatched = 0
    /\ pool = <<>>
    /\ results = <<>>
    /\ list_store = Placeholder
    /\ late = FALSE

InitInstall ==
    /\ installing = [t \in 1..MaxInstalls |-> NotStarted]
    /\ queues = {}

InitApp ==
    /\ ui = "init"
    /\ context = FALSE
    /\ monitoring = TRUE
    /\ watcher = "unstarted"
    /\ faults = 0
    /\ idle = <<>>
    /\ workers = NoWorkers
    /\ progress = FALSE
    /\ last = Nothing

Init ==
    /\ op = "idle" /\ pc = "idle"
    /\ calls = <<>>
    /\ status = InitStatus
    /\ arg = <<>>
    /\ method = 0
    /\ ret = <<>>
    /\ InitApp
    /\ InitSearch
    /\ InitInstall

Next ==
    \/ get_cups_status_start
    \/ get_cups_status_is_active
    \/ get_cups_status_probe
    \/ get_cups_status_list
    \/ get_cups_status_stuck
    \/ test_printer_start
    \/ test_printer_enable
    \/ test_printer_accept
    \/ test_printer_exists
    \/ test_printer_submit
    \/ get_drivers_start
    \/ get_drivers_fetch
    \/ safe_name_call
    \/ extract_model_call
    \/ process_usb_device_read
    \/ process_usb_device_prompt
    \/ process_usb_device_select
    \/ fix_cups_issues_start
    \/ fix_cups_issues_stop_browsed
    \/ fix_cups_issues_cancel
    \/ fix_cups_issues_spool
    \/ fix_cups_issues_restart
    \/ fix_cups_issues_verify
    \/ delete_printer_start
    \/ delete_printer_cancel
    \/ delete_printer_remove
    \/ change_driver_start
    \/ change_driver_cancel
    \/ change_driver_exists
    \/ change_driver_configure
    \/ change_driver_enable
    \/ change_driver_accept
    \/ safe_printer_command_start
    \/ safe_printer_command_run
    \/ get_available_printers_start
    \/ get_available_printers_list
    \/ get_available_printers_details
    \/ disable_ubuntu_autoconfig_start
    \/ disable_ubuntu_autoconfig_step
    \/ Return

Spec == Init /\ [][Next]_vars

NextApp ==
    \/ do_activate
    \/ status_timer
    \/ update_in_background
    \/ load_in_background
    \/ on_printer_selection_changed
    \/ on_test_printer
    \/ pulse_progress
    \/ test_in_background
    \/ run_dialog
    \/ on_fix_cups
    \/ fix_in_background
    \/ install_in_background
    \/ update_cups_display
    \/ update_printer_list
    \/ log_callback
    \/ progress_dialog_destroy
    \/ load_printers
    \/ update_cups_status
    \/ process_usb_device
    \/ monitor_printers_check
    \/ monitor_printers_setup
    \/ monitor_printers_poll
    \/ monitor_printers_backoff

SpecApp == Init /\ [][NextApp]_vars

\* the application with a holder of the application object that may clear
\* the monitoring flag
NextWatch ==
    \/ NextApp
    \/ monitoring_cleared

SpecWatch == Init /\ [][NextWatch]_vars

NextSearch ==
    \/ show
    \/ on_search_changed
    \/ perform_search_debounced
    \/ on_search_activate
    \/ show_return
    \/ search_drivers_background_start
    \/ search_drivers_background
    \/ update_driver_list

SpecSearch == Init /\ [][NextSearch]_vars

NextInstall ==
    \/ install_driver
    \/ install_cancel
    \/ install_exists
    \/ install_configure
    \/ install_enable
    \/ install_accept

SpecInstall == Init /\ [][NextInstall]_vars

=============================================================================
